---- MODULE Spec2Model ----
(***************************************************************************)
(* Chilean RUT validator (hardened variant, test/validate-chilean-rut.js). *)
(* The five exported functions are pure.  A JavaScript value is a record   *)
(* tagged by kind, a string is a sequence of one-character strings, and a  *)
(* call ends in a completion: a returned value or a thrown exception.      *)
(***************************************************************************)
EXTENDS Integers, Sequences, FiniteSets

VARIABLES rut, fn, completion

vars == <<rut, fn, completion>>

(***************************************************************************)
(* Bounds of the explored inputs.                                          *)
(***************************************************************************)
MaxDigits == 21
MaxSeparators == 2
MaxFree == 4
MaxSmallNumber == 20

(***************************************************************************)
(* JavaScript values and completions.                                      *)
(***************************************************************************)
Str(s) == [kind |-> "string", text |-> s]
Num(n) == [kind |-> "number", num |-> n]
Bool(b) == [kind |-> "boolean", bool |-> b]
Null == [kind |-> "null"]
Undefined == [kind |-> "undefined"]
\* a plain object or a record built by an object literal
Obj(p) == [kind |-> "object", props |-> p]
\* an object with no usable toString/valueOf, e.g. Object.create(null)
NullProtoObject == [kind |-> "nullproto"]

Return(v) == [type |-> "normal", value |-> v]
Throw == [type |-> "throw"]

(***************************************************************************)
(* Characters.                                                             *)
(***************************************************************************)
DigitChars == <<"0", "1", "2", "3", "4", "5", "6", "7", "8", "9">>
Digit == {DigitChars[i] : i \in 1..10}
LowerChars == <<"a", "b", "c", "d", "e", "f", "g", "h", "i", "j", "k", "l", "m",
                "n", "o", "p", "q", "r", "s", "t", "u", "v", "w", "x", "y", "z">>
UpperChars == <<"A", "B", "C", "D", "E", "F", "G", "H", "I", "J", "K", "L", "M",
                "N", "O", "P", "Q", "R", "S", "T", "U", "V", "W", "X", "Y", "Z">>
\* The 25 characters (code units) the class escape \s matches: tab, line feed,
\* vertical tab (written raw), form feed, carriage return, space, and the 19
\* spaces and line separators outside ASCII.  A character outside ASCII is
\* written as the name of its code unit; it is one character of a text.
AsciiWhiteSpace == {"\t", "\n", "", "\f", "\r", " "}
UnicodeWhiteSpace ==
  {"U+00A0", "U+1680", "U+2000", "U+2001", "U+2002", "U+2003", "U+2004",
   "U+2005", "U+2006", "U+2007", "U+2008", "U+2009", "U+200A", "U+2028",
   "U+2029", "U+202F", "U+205F", "U+3000", "U+FEFF"}
WhiteSpace == AsciiWhiteSpace \cup UnicodeWhiteSpace

\* parseInt(c, 10) of a one-digit string
parseInt(c) == (CHOOSE i \in 1..10 : DigitChars[i] = c) - 1

\* String(d) of an integer 0..9
DigitToString(d) == DigitChars[d + 1]

RECURSIVE NatToString(_)
NatToString(n) ==
  IF n < 10 THEN <<DigitToString(n)>>
  ELSE Append(NatToString(n \div 10), DigitToString(n % 10))

\* Number.prototype.toString of an integer below 10^21
NumberToString(n) == IF n < 0 THEN <<"-">> \o NatToString(-n) ELSE NatToString(n)

(***************************************************************************)
(* String.prototype.toUpperCase.  The text is mapped code point by code    *)
(* point with the Unicode uppercase mapping, which does not depend on the  *)
(* locale or on the neighbouring characters.  The mapping of one character *)
(* is a text of one, two or three characters, so the result can be longer  *)
(* than the text it is made from.                                          *)
(***************************************************************************)
\* The characters outside ASCII that are one code unit and have an uppercase
\* mapping different from themselves, each with its mapping (Unicode 17).
UnicodeUpperPairs ==
  {<<"U+00B5", <<"U+039C">>>>, <<"U+00DF", <<"S", "S">>>>, <<"U+00E0", <<"U+00C0">>>>,
   <<"U+00E1", <<"U+00C1">>>>, <<"U+00E2", <<"U+00C2">>>>, <<"U+00E3", <<"U+00C3">>>>,
   <<"U+00E4", <<"U+00C4">>>>, <<"U+00E5", <<"U+00C5">>>>, <<"U+00E6", <<"U+00C6">>>>,
   <<"U+00E7", <<"U+00C7">>>>, <<"U+00E8", <<"U+00C8">>>>, <<"U+00E9", <<"U+00C9">>>>,
   <<"U+00EA", <<"U+00CA">>>>, <<"U+00EB", <<"U+00CB">>>>, <<"U+00EC", <<"U+00CC">>>>,
   <<"U+00ED", <<"U+00CD">>>>, <<"U+00EE", <<"U+00CE">>>>, <<"U+00EF", <<"U+00CF">>>>,
   <<"U+00F0", <<"U+00D0">>>>, <<"U+00F1", <<"U+00D1">>>>, <<"U+00F2", <<"U+00D2">>>>,
   <<"U+00F3", <<"U+00D3">>>>, <<"U+00F4", <<"U+00D4">>>>, <<"U+00F5", <<"U+00D5">>>>,
   <<"U+00F6", <<"U+00D6">>>>, <<"U+00F8", <<"U+00D8">>>>, <<"U+00F9", <<"U+00D9">>>>,
   <<"U+00FA", <<"U+00DA">>>>, <<"U+00FB", <<"U+00DB">>>>, <<"U+00FC", <<"U+00DC">>>>,
   <<"U+00FD", <<"U+00DD">>>>, <<"U+00FE", <<"U+00DE">>>>, <<"U+00FF", <<"U+0178">>>>,
   <<"U+0101", <<"U+0100">>>>, <<"U+0103", <<"U+0102">>>>, <<"U+0105", <<"U+0104">>>>,
   <<"U+0107", <<"U+0106">>>>, <<"U+0109", <<"U+0108">>>>, <<"U+010B", <<"U+010A">>>>,
   <<"U+010D", <<"U+010C">>>>, <<"U+010F", <<"U+010E">>>>, <<"U+0111", <<"U+0110">>>>,
   <<"U+0113", <<"U+0112">>>>, <<"U+0115", <<"U+0114">>>>, <<"U+0117", <<"U+0116">>>>,
   <<"U+0119", <<"U+0118">>>>, <<"U+011B", <<"U+011A">>>>, <<"U+011D", <<"U+011C">>>>,
   <<"U+011F", <<"U+011E">>>>, <<"U+0121", <<"U+0120">>>>, <<"U+0123", <<"U+0122">>>>,
   <<"U+0125", <<"U+0124">>>>, <<"U+0127", <<"U+0126">>>>, <<"U+0129", <<"U+0128">>>>,
   <<"U+012B", <<"U+012A">>>>, <<"U+012D", <<"U+012C">>>>, <<"U+012F", <<"U+012E">>>>,
   <<"U+0131", <<"I">>>>, <<"U+0133", <<"U+0132">>>>, <<"U+0135", <<"U+0134">>>>,
   <<"U+0137", <<"U+0136">>>>, <<"U+013A", <<"U+0139">>>>, <<"U+013C", <<"U+013B">>>>,
   <<"U+013E", <<"U+013D">>>>, <<"U+0140", <<"U+013F">>>>, <<"U+0142", <<"U+0141">>>>,
   <<"U+0144", <<"U+0143">>>>, <<"U+0146", <<"U+0145">>>>, <<"U+0148", <<"U+0147">>>>,
   <<"U+0149", <<"U+02BC", "N">>>>, <<"U+014B", <<"U+014A">>>>, <<"U+014D", <<"U+014C">>>>,
   <<"U+014F", <<"U+014E">>>>, <<"U+0151", <<"U+0150">>>>, <<"U+0153", <<"U+0152">>>>,
   <<"U+0155", <<"U+0154">>>>, <<"U+0157", <<"U+0156">>>>, <<"U+0159", <<"U+0158">>>>,
   <<"U+015B", <<"U+015A">>>>, <<"U+015D", <<"U+015C">>>>, <<"U+015F", <<"U+015E">>>>,
   <<"U+0161", <<"U+0160">>>>, <<"U+0163", <<"U+0162">>>>, <<"U+0165", <<"U+0164">>>>,
   <<"U+0167", <<"U+0166">>>>, <<"U+0169", <<"U+0168">>>>, <<"U+016B", <<"U+016A">>>>,
   <<"U+016D", <<"U+016C">>>>, <<"U+016F", <<"U+016E">>>>, <<"U+0171", <<"U+0170">>>>,
   <<"U+0173", <<"U+0172">>>>, <<"U+0175", <<"U+0174">>>>, <<"U+0177", <<"U+0176">>>>,
   <<"U+017A", <<"U+0179">>>>, <<"U+017C", <<"U+017B">>>>, <<"U+017E", <<"U+017D">>>>,
   <<"U+017F", <<"S">>>>, <<"U+0180", <<"U+0243">>>>, <<"U+0183", <<"U+0182">>>>,
   <<"U+0185", <<"U+0184">>>>, <<"U+0188", <<"U+0187">>>>, <<"U+018C", <<"U+018B">>>>,
   <<"U+0192", <<"U+0191">>>>, <<"U+0195", <<"U+01F6">>>>, <<"U+0199", <<"U+0198">>>>,
   <<"U+019A", <<"U+023D">>>>, <<"U+019B", <<"U+A7DC">>>>, <<"U+019E", <<"U+0220">>>>,
   <<"U+01A1", <<"U+01A0">>>>, <<"U+01A3", <<"U+01A2">>>>, <<"U+01A5", <<"U+01A4">>>>,
   <<"U+01A8", <<"U+01A7">>>>, <<"U+01AD", <<"U+01AC">>>>, <<"U+01B0", <<"U+01AF">>>>,
   <<"U+01B4", <<"U+01B3">>>>, <<"U+01B6", <<"U+01B5">>>>, <<"U+01B9", <<"U+01B8">>>>,
   <<"U+01BD", <<"U+01BC">>>>, <<"U+01BF", <<"U+01F7">>>>, <<"U+01C5", <<"U+01C4">>>>,
   <<"U+01C6", <<"U+01C4">>>>, <<"U+01C8", <<"U+01C7">>>>, <<"U+01C9", <<"U+01C7">>>>,
   <<"U+01CB", <<"U+01CA">>>>, <<"U+01CC", <<"U+01CA">>>>, <<"U+01CE", <<"U+01CD">>>>,
   <<"U+01D0", <<"U+01CF">>>>, <<"U+01D2", <<"U+01D1">>>>, <<"U+01D4", <<"U+01D3">>>>,
   <<"U+01D6", <<"U+01D5">>>>, <<"U+01D8", <<"U+01D7">>>>, <<"U+01DA", <<"U+01D9">>>>,
   <<"U+01DC", <<"U+01DB">>>>, <<"U+01DD", <<"U+018E">>>>, <<"U+01DF", <<"U+01DE">>>>,
   <<"U+01E1", <<"U+01E0">>>>, <<"U+01E3", <<"U+01E2">>>>, <<"U+01E5", <<"U+01E4">>>>,
   <<"U+01E7", <<"U+01E6">>>>, <<"U+01E9", <<"U+01E8">>>>, <<"U+01EB", <<"U+01EA">>>>,
   <<"U+01ED", <<"U+01EC">>>>, <<"U+01EF", <<"U+01EE">>>>, <<"U+01F0", <<"J", "U+030C">>>>,
   <<"U+01F2", <<"U+01F1">>>>, <<"U+01F3", <<"U+01F1">>>>, <<"U+01F5", <<"U+01F4">>>>,
   <<"U+01F9", <<"U+01F8">>>>, <<"U+01FB", <<"U+01FA">>>>, <<"U+01FD", <<"U+01FC">>>>,
   <<"U+01FF", <<"U+01FE">>>>, <<"U+0201", <<"U+0200">>>>, <<"U+0203", <<"U+0202">>>>,
   <<"U+0205", <<"U+0204">>>>, <<"U+0207", <<"U+0206">>>>, <<"U+0209", <<"U+0208">>>>,
   <<"U+020B", <<"U+020A">>>>, <<"U+020D", <<"U+020C">>>>, <<"U+020F", <<"U+020E">>>>,
   <<"U+0211", <<"U+0210">>>>, <<"U+0213", <<"U+0212">>>>, <<"U+0215", <<"U+0214">>>>,
   <<"U+0217", <<"U+0216">>>>, <<"U+0219", <<"U+0218">>>>, <<"U+021B", <<"U+021A">>>>,
   <<"U+021D", <<"U+021C">>>>, <<"U+021F", <<"U+021E">>>>, <<"U+0223", <<"U+0222">>>>,
   <<"U+0225", <<"U+0224">>>>, <<"U+0227", <<"U+0226">>>>, <<"U+0229", <<"U+0228">>>>,
   <<"U+022B", <<"U+022A">>>>, <<"U+022D", <<"U+022C">>>>, <<"U+022F", <<"U+022E">>>>,
   <<"U+0231", <<"U+0230">>>>, <<"U+0233", <<"U+0232">>>>, <<"U+023C", <<"U+023B">>>>,
   <<"U+023F", <<"U+2C7E">>>>, <<"U+0240", <<"U+2C7F">>>>, <<"U+0242", <<"U+0241">>>>,
   <<"U+0247", <<"U+0246">>>>, <<"U+0249", <<"U+0248">>>>, <<"U+024B", <<"U+024A">>>>,
   <<"U+024D", <<"U+024C">>>>, <<"U+024F", <<"U+024E">>>>, <<"U+0250", <<"U+2C6F">>>>,
   <<"U+0251", <<"U+2C6D">>>>, <<"U+0252", <<"U+2C70">>>>, <<"U+0253", <<"U+0181">>>>,
   <<"U+0254", <<"U+0186">>>>, <<"U+0256", <<"U+0189">>>>, <<"U+0257", <<"U+018A">>>>,
   <<"U+0259", <<"U+018F">>>>, <<"U+025B", <<"U+0190">>>>, <<"U+025C", <<"U+A7AB">>>>,
   <<"U+0260", <<"U+0193">>>>, <<"U+0261", <<"U+A7AC">>>>, <<"U+0263", <<"U+0194">>>>,
   <<"U+0264", <<"U+A7CB">>>>, <<"U+0265", <<"U+A78D">>>>, <<"U+0266", <<"U+A7AA">>>>,
   <<"U+0268", <<"U+0197">>>>, <<"U+0269", <<"U+0196">>>>, <<"U+026A", <<"U+A7AE">>>>,
   <<"U+026B", <<"U+2C62">>>>, <<"U+026C", <<"U+A7AD">>>>, <<"U+026F", <<"U+019C">>>>,
   <<"U+0271", <<"U+2C6E">>>>, <<"U+0272", <<"U+019D">>>>, <<"U+0275", <<"U+019F">>>>,
   <<"U+027D", <<"U+2C64">>>>, <<"U+0280", <<"U+01A6">>>>, <<"U+0282", <<"U+A7C5">>>>,
   <<"U+0283", <<"U+01A9">>>>, <<"U+0287", <<"U+A7B1">>>>, <<"U+0288", <<"U+01AE">>>>,
   <<"U+0289", <<"U+0244">>>>, <<"U+028A", <<"U+01B1">>>>, <<"U+028B", <<"U+01B2">>>>,
   <<"U+028C", <<"U+0245">>>>, <<"U+0292", <<"U+01B7">>>>, <<"U+029D", <<"U+A7B2">>>>,
   <<"U+029E", <<"U+A7B0">>>>, <<"U+0345", <<"U+0399">>>>, <<"U+0371", <<"U+0370">>>>,
   <<"U+0373", <<"U+0372">>>>, <<"U+0377", <<"U+0376">>>>, <<"U+037B", <<"U+03FD">>>>,
   <<"U+037C", <<"U+03FE">>>>, <<"U+037D", <<"U+03FF">>>>,
   <<"U+0390", <<"U+0399", "U+0308", "U+0301">>>>, <<"U+03AC", <<"U+0386">>>>,
   <<"U+03AD", <<"U+0388">>>>, <<"U+03AE", <<"U+0389">>>>, <<"U+03AF", <<"U+038A">>>>,
   <<"U+03B0", <<"U+03A5", "U+0308", "U+0301">>>>, <<"U+03B1", <<"U+0391">>>>,
   <<"U+03B2", <<"U+0392">>>>, <<"U+03B3", <<"U+0393">>>>, <<"U+03B4", <<"U+0394">>>>,
   <<"U+03B5", <<"U+0395">>>>, <<"U+03B6", <<"U+0396">>>>, <<"U+03B7", <<"U+0397">>>>,
   <<"U+03B8", <<"U+0398">>>>, <<"U+03B9", <<"U+0399">>>>, <<"U+03BA", <<"U+039A">>>>,
   <<"U+03BB", <<"U+039B">>>>, <<"U+03BC", <<"U+039C">>>>, <<"U+03BD", <<"U+039D">>>>,
   <<"U+03BE", <<"U+039E">>>>, <<"U+03BF", <<"U+039F">>>>, <<"U+03C0", <<"U+03A0">>>>,
   <<"U+03C1", <<"U+03A1">>>>, <<"U+03C2", <<"U+03A3">>>>, <<"U+03C3", <<"U+03A3">>>>,
   <<"U+03C4", <<"U+03A4">>>>, <<"U+03C5", <<"U+03A5">>>>, <<"U+03C6", <<"U+03A6">>>>,
   <<"U+03C7", <<"U+03A7">>>>, <<"U+03C8", <<"U+03A8">>>>, <<"U+03C9", <<"U+03A9">>>>,
   <<"U+03CA", <<"U+03AA">>>>, <<"U+03CB", <<"U+03AB">>>>, <<"U+03CC", <<"U+038C">>>>,
   <<"U+03CD", <<"U+038E">>>>, <<"U+03CE", <<"U+038F">>>>, <<"U+03D0", <<"U+0392">>>>,
   <<"U+03D1", <<"U+0398">>>>, <<"U+03D5", <<"U+03A6">>>>, <<"U+03D6", <<"U+03A0">>>>,
   <<"U+03D7", <<"U+03CF">>>>, <<"U+03D9", <<"U+03D8">>>>, <<"U+03DB", <<"U+03DA">>>>,
   <<"U+03DD", <<"U+03DC">>>>, <<"U+03DF", <<"U+03DE">>>>, <<"U+03E1", <<"U+03E0">>>>,
   <<"U+03E3", <<"U+03E2">>>>, <<"U+03E5", <<"U+03E4">>>>, <<"U+03E7", <<"U+03E6">>>>,
   <<"U+03E9", <<"U+03E8">>>>, <<"U+03EB", <<"U+03EA">>>>, <<"U+03ED", <<"U+03EC">>>>,
   <<"U+03EF", <<"U+03EE">>>>, <<"U+03F0", <<"U+039A">>>>, <<"U+03F1", <<"U+03A1">>>>,
   <<"U+03F2", <<"U+03F9">>>>, <<"U+03F3", <<"U+037F">>>>, <<"U+03F5", <<"U+0395">>>>,
   <<"U+03F8", <<"U+03F7">>>>, <<"U+03FB", <<"U+03FA">>>>, <<"U+0430", <<"U+0410">>>>,
   <<"U+0431", <<"U+0411">>>>, <<"U+0432", <<"U+0412">>>>, <<"U+0433", <<"U+0413">>>>,
   <<"U+0434", <<"U+0414">>>>, <<"U+0435", <<"U+0415">>>>, <<"U+0436", <<"U+0416">>>>,
   <<"U+0437", <<"U+0417">>>>, <<"U+0438", <<"U+0418">>>>, <<"U+0439", <<"U+0419">>>>,
   <<"U+043A", <<"U+041A">>>>, <<"U+043B", <<"U+041B">>>>, <<"U+043C", <<"U+041C">>>>,
   <<"U+043D", <<"U+041D">>>>, <<"U+043E", <<"U+041E">>>>, <<"U+043F", <<"U+041F">>>>,
   <<"U+0440", <<"U+0420">>>>, <<"U+0441", <<"U+0421">>>>, <<"U+0442", <<"U+0422">>>>,
   <<"U+0443", <<"U+0423">>>>, <<"U+0444", <<"U+0424">>>>, <<"U+0445", <<"U+0425">>>>,
   <<"U+0446", <<"U+0426">>>>, <<"U+0447", <<"U+0427">>>>, <<"U+0448", <<"U+0428">>>>,
   <<"U+0449", <<"U+0429">>>>, <<"U+044A", <<"U+042A">>>>, <<"U+044B", <<"U+042B">>>>,
   <<"U+044C", <<"U+042C">>>>, <<"U+044D", <<"U+042D">>>>, <<"U+044E", <<"U+042E">>>>,
   <<"U+044F", <<"U+042F">>>>, <<"U+0450", <<"U+0400">>>>, <<"U+0451", <<"U+0401">>>>,
   <<"U+0452", <<"U+0402">>>>, <<"U+0453", <<"U+0403">>>>, <<"U+0454", <<"U+0404">>>>,
   <<"U+0455", <<"U+0405">>>>, <<"U+0456", <<"U+0406">>>>, <<"U+0457", <<"U+0407">>>>,
   <<"U+0458", <<"U+0408">>>>, <<"U+0459", <<"U+0409">>>>, <<"U+045A", <<"U+040A">>>>,
   <<"U+045B", <<"U+040B">>>>, <<"U+045C", <<"U+040C">>>>, <<"U+045D", <<"U+040D">>>>,
   <<"U+045E", <<"U+040E">>>>, <<"U+045F", <<"U+040F">>>>, <<"U+0461", <<"U+0460">>>>,
   <<"U+0463", <<"U+0462">>>>, <<"U+0465", <<"U+0464">>>>, <<"U+0467", <<"U+0466">>>>,
   <<"U+0469", <<"U+0468">>>>, <<"U+046B", <<"U+046A">>>>, <<"U+046D", <<"U+046C">>>>,
   <<"U+046F", <<"U+046E">>>>, <<"U+0471", <<"U+0470">>>>, <<"U+0473", <<"U+0472">>>>,
   <<"U+0475", <<"U+0474">>>>, <<"U+0477", <<"U+0476">>>>, <<"U+0479", <<"U+0478">>>>,
   <<"U+047B", <<"U+047A">>>>, <<"U+047D", <<"U+047C">>>>, <<"U+047F", <<"U+047E">>>>,
   <<"U+0481", <<"U+0480">>>>, <<"U+048B", <<"U+048A">>>>, <<"U+048D", <<"U+048C">>>>,
   <<"U+048F", <<"U+048E">>>>, <<"U+0491", <<"U+0490">>>>, <<"U+0493", <<"U+0492">>>>,
   <<"U+0495", <<"U+0494">>>>, <<"U+0497", <<"U+0496">>>>, <<"U+0499", <<"U+0498">>>>,
   <<"U+049B", <<"U+049A">>>>, <<"U+049D", <<"U+049C">>>>, <<"U+049F", <<"U+049E">>>>,
   <<"U+04A1", <<"U+04A0">>>>, <<"U+04A3", <<"U+04A2">>>>, <<"U+04A5", <<"U+04A4">>>>,
   <<"U+04A7", <<"U+04A6">>>>, <<"U+04A9", <<"U+04A8">>>>, <<"U+04AB", <<"U+04AA">>>>,
   <<"U+04AD", <<"U+04AC">>>>, <<"U+04AF", <<"U+04AE">>>>, <<"U+04B1", <<"U+04B0">>>>,
   <<"U+04B3", <<"U+04B2">>>>, <<"U+04B5", <<"U+04B4">>>>, <<"U+04B7", <<"U+04B6">>>>,
   <<"U+04B9", <<"U+04B8">>>>, <<"U+04BB", <<"U+04BA">>>>, <<"U+04BD", <<"U+04BC">>>>,
   <<"U+04BF", <<"U+04BE">>>>, <<"U+04C2", <<"U+04C1">>>>, <<"U+04C4", <<"U+04C3">>>>,
   <<"U+04C6", <<"U+04C5">>>>, <<"U+04C8", <<"U+04C7">>>>, <<"U+04CA", <<"U+04C9">>>>,
   <<"U+04CC", <<"U+04CB">>>>, <<"U+04CE", <<"U+04CD">>>>, <<"U+04CF", <<"U+04C0">>>>,
   <<"U+04D1", <<"U+04D0">>>>, <<"U+04D3", <<"U+04D2">>>>, <<"U+04D5", <<"U+04D4">>>>,
   <<"U+04D7", <<"U+04D6">>>>, <<"U+04D9", <<"U+04D8">>>>, <<"U+04DB", <<"U+04DA">>>>,
   <<"U+04DD", <<"U+04DC">>>>, <<"U+04DF", <<"U+04DE">>>>, <<"U+04E1", <<"U+04E0">>>>,
   <<"U+04E3", <<"U+04E2">>>>, <<"U+04E5", <<"U+04E4">>>>, <<"U+04E7", <<"U+04E6">>>>,
   <<"U+04E9", <<"U+04E8">>>>, <<"U+04EB", <<"U+04EA">>>>, <<"U+04ED", <<"U+04EC">>>>,
   <<"U+04EF", <<"U+04EE">>>>, <<"U+04F1", <<"U+04F0">>>>, <<"U+04F3", <<"U+04F2">>>>,
   <<"U+04F5", <<"U+04F4">>>>, <<"U+04F7", <<"U+04F6">>>>, <<"U+04F9", <<"U+04F8">>>>,
   <<"U+04FB", <<"U+04FA">>>>, <<"U+04FD", <<"U+04FC">>>>, <<"U+04FF", <<"U+04FE">>>>,
   <<"U+0501", <<"U+0500">>>>, <<"U+0503", <<"U+0502">>>>, <<"U+0505", <<"U+0504">>>>,
   <<"U+0507", <<"U+0506">>>>, <<"U+0509", <<"U+0508">>>>, <<"U+050B", <<"U+050A">>>>,
   <<"U+050D", <<"U+050C">>>>, <<"U+050F", <<"U+050E">>>>, <<"U+0511", <<"U+0510">>>>,
   <<"U+0513", <<"U+0512">>>>, <<"U+0515", <<"U+0514">>>>, <<"U+0517", <<"U+0516">>>>,
   <<"U+0519", <<"U+0518">>>>, <<"U+051B", <<"U+051A">>>>, <<"U+051D", <<"U+051C">>>>,
   <<"U+051F", <<"U+051E">>>>, <<"U+0521", <<"U+0520">>>>, <<"U+0523", <<"U+0522">>>>,
   <<"U+0525", <<"U+0524">>>>, <<"U+0527", <<"U+0526">>>>, <<"U+0529", <<"U+0528">>>>,
   <<"U+052B", <<"U+052A">>>>, <<"U+052D", <<"U+052C">>>>, <<"U+052F", <<"U+052E">>>>,
   <<"U+0561", <<"U+0531">>>>, <<"U+0562", <<"U+0532">>>>, <<"U+0563", <<"U+0533">>>>,
   <<"U+0564", <<"U+0534">>>>, <<"U+0565", <<"U+0535">>>>, <<"U+0566", <<"U+0536">>>>,
   <<"U+0567", <<"U+0537">>>>, <<"U+0568", <<"U+0538">>>>, <<"U+0569", <<"U+0539">>>>,
   <<"U+056A", <<"U+053A">>>>, <<"U+056B", <<"U+053B">>>>, <<"U+056C", <<"U+053C">>>>,
   <<"U+056D", <<"U+053D">>>>, <<"U+056E", <<"U+053E">>>>, <<"U+056F", <<"U+053F">>>>,
   <<"U+0570", <<"U+0540">>>>, <<"U+0571", <<"U+0541">>>>, <<"U+0572", <<"U+0542">>>>,
   <<"U+0573", <<"U+0543">>>>, <<"U+0574", <<"U+0544">>>>, <<"U+0575", <<"U+0545">>>>,
   <<"U+0576", <<"U+0546">>>>, <<"U+0577", <<"U+0547">>>>, <<"U+0578", <<"U+0548">>>>,
   <<"U+0579", <<"U+0549">>>>, <<"U+057A", <<"U+054A">>>>, <<"U+057B", <<"U+054B">>>>,
   <<"U+057C", <<"U+054C">>>>, <<"U+057D", <<"U+054D">>>>, <<"U+057E", <<"U+054E">>>>,
   <<"U+057F", <<"U+054F">>>>, <<"U+0580", <<"U+0550">>>>, <<"U+0581", <<"U+0551">>>>,
   <<"U+0582", <<"U+0552">>>>, <<"U+0583", <<"U+0553">>>>, <<"U+0584", <<"U+0554">>>>,
   <<"U+0585", <<"U+0555">>>>, <<"U+0586", <<"U+0556">>>>,
   <<"U+0587", <<"U+0535", "U+0552">>>>, <<"U+10D0", <<"U+1C90">>>>,
   <<"U+10D1", <<"U+1C91">>>>, <<"U+10D2", <<"U+1C92">>>>, <<"U+10D3", <<"U+1C93">>>>,
   <<"U+10D4", <<"U+1C94">>>>, <<"U+10D5", <<"U+1C95">>>>, <<"U+10D6", <<"U+1C96">>>>,
   <<"U+10D7", <<"U+1C97">>>>, <<"U+10D8", <<"U+1C98">>>>, <<"U+10D9", <<"U+1C99">>>>,
   <<"U+10DA", <<"U+1C9A">>>>, <<"U+10DB", <<"U+1C9B">>>>, <<"U+10DC", <<"U+1C9C">>>>,
   <<"U+10DD", <<"U+1C9D">>>>, <<"U+10DE", <<"U+1C9E">>>>, <<"U+10DF", <<"U+1C9F">>>>,
   <<"U+10E0", <<"U+1CA0">>>>, <<"U+10E1", <<"U+1CA1">>>>, <<"U+10E2", <<"U+1CA2">>>>,
   <<"U+10E3", <<"U+1CA3">>>>, <<"U+10E4", <<"U+1CA4">>>>, <<"U+10E5", <<"U+1CA5">>>>,
   <<"U+10E6", <<"U+1CA6">>>>, <<"U+10E7", <<"U+1CA7">>>>, <<"U+10E8", <<"U+1CA8">>>>,
   <<"U+10E9", <<"U+1CA9">>>>, <<"U+10EA", <<"U+1CAA">>>>, <<"U+10EB", <<"U+1CAB">>>>,
   <<"U+10EC", <<"U+1CAC">>>>, <<"U+10ED", <<"U+1CAD">>>>, <<"U+10EE", <<"U+1CAE">>>>,
   <<"U+10EF", <<"U+1CAF">>>>, <<"U+10F0", <<"U+1CB0">>>>, <<"U+10F1", <<"U+1CB1">>>>,
   <<"U+10F2", <<"U+1CB2">>>>, <<"U+10F3", <<"U+1CB3">>>>, <<"U+10F4", <<"U+1CB4">>>>,
   <<"U+10F5", <<"U+1CB5">>>>, <<"U+10F6", <<"U+1CB6">>>>, <<"U+10F7", <<"U+1CB7">>>>,
   <<"U+10F8", <<"U+1CB8">>>>, <<"U+10F9", <<"U+1CB9">>>>, <<"U+10FA", <<"U+1CBA">>>>,
   <<"U+10FD", <<"U+1CBD">>>>, <<"U+10FE", <<"U+1CBE">>>>, <<"U+10FF", <<"U+1CBF">>>>,
   <<"U+13F8", <<"U+13F0">>>>, <<"U+13F9", <<"U+13F1">>>>, <<"U+13FA", <<"U+13F2">>>>,
   <<"U+13FB", <<"U+13F3">>>>, <<"U+13FC", <<"U+13F4">>>>, <<"U+13FD", <<"U+13F5">>>>,
   <<"U+1C80", <<"U+0412">>>>, <<"U+1C81", <<"U+0414">>>>, <<"U+1C82", <<"U+041E">>>>,
   <<"U+1C83", <<"U+0421">>>>, <<"U+1C84", <<"U+0422">>>>, <<"U+1C85", <<"U+0422">>>>,
   <<"U+1C86", <<"U+042A">>>>, <<"U+1C87", <<"U+0462">>>>, <<"U+1C88", <<"U+A64A">>>>,
   <<"U+1C8A", <<"U+1C89">>>>, <<"U+1D79", <<"U+A77D">>>>, <<"U+1D7D", <<"U+2C63">>>>,
   <<"U+1D8E", <<"U+A7C6">>>>, <<"U+1E01", <<"U+1E00">>>>, <<"U+1E03", <<"U+1E02">>>>,
   <<"U+1E05", <<"U+1E04">>>>, <<"U+1E07", <<"U+1E06">>>>, <<"U+1E09", <<"U+1E08">>>>,
   <<"U+1E0B", <<"U+1E0A">>>>, <<"U+1E0D", <<"U+1E0C">>>>, <<"U+1E0F", <<"U+1E0E">>>>,
   <<"U+1E11", <<"U+1E10">>>>, <<"U+1E13", <<"U+1E12">>>>, <<"U+1E15", <<"U+1E14">>>>,
   <<"U+1E17", <<"U+1E16">>>>, <<"U+1E19", <<"U+1E18">>>>, <<"U+1E1B", <<"U+1E1A">>>>,
   <<"U+1E1D", <<"U+1E1C">>>>, <<"U+1E1F", <<"U+1E1E">>>>, <<"U+1E21", <<"U+1E20">>>>,
   <<"U+1E23", <<"U+1E22">>>>, <<"U+1E25", <<"U+1E24">>>>, <<"U+1E27", <<"U+1E26">>>>,
   <<"U+1E29", <<"U+1E28">>>>, <<"U+1E2B", <<"U+1E2A">>>>, <<"U+1E2D", <<"U+1E2C">>>>,
   <<"U+1E2F", <<"U+1E2E">>>>, <<"U+1E31", <<"U+1E30">>>>, <<"U+1E33", <<"U+1E32">>>>,
   <<"U+1E35", <<"U+1E34">>>>, <<"U+1E37", <<"U+1E36">>>>, <<"U+1E39", <<"U+1E38">>>>,
   <<"U+1E3B", <<"U+1E3A">>>>, <<"U+1E3D", <<"U+1E3C">>>>, <<"U+1E3F", <<"U+1E3E">>>>,
   <<"U+1E41", <<"U+1E40">>>>, <<"U+1E43", <<"U+1E42">>>>, <<"U+1E45", <<"U+1E44">>>>,
   <<"U+1E47", <<"U+1E46">>>>, <<"U+1E49", <<"U+1E48">>>>, <<"U+1E4B", <<"U+1E4A">>>>,
   <<"U+1E4D", <<"U+1E4C">>>>, <<"U+1E4F", <<"U+1E4E">>>>, <<"U+1E51", <<"U+1E50">>>>,
   <<"U+1E53", <<"U+1E52">>>>, <<"U+1E55", <<"U+1E54">>>>, <<"U+1E57", <<"U+1E56">>>>,
   <<"U+1E59", <<"U+1E58">>>>, <<"U+1E5B", <<"U+1E5A">>>>, <<"U+1E5D", <<"U+1E5C">>>>,
   <<"U+1E5F", <<"U+1E5E">>>>, <<"U+1E61", <<"U+1E60">>>>, <<"U+1E63", <<"U+1E62">>>>,
   <<"U+1E65", <<"U+1E64">>>>, <<"U+1E67", <<"U+1E66">>>>, <<"U+1E69", <<"U+1E68">>>>,
   <<"U+1E6B", <<"U+1E6A">>>>, <<"U+1E6D", <<"U+1E6C">>>>, <<"U+1E6F", <<"U+1E6E">>>>,
   <<"U+1E71", <<"U+1E70">>>>, <<"U+1E73", <<"U+1E72">>>>, <<"U+1E75", <<"U+1E74">>>>,
   <<"U+1E77", <<"U+1E76">>>>, <<"U+1E79", <<"U+1E78">>>>, <<"U+1E7B", <<"U+1E7A">>>>,
   <<"U+1E7D", <<"U+1E7C">>>>, <<"U+1E7F", <<"U+1E7E">>>>, <<"U+1E81", <<"U+1E80">>>>,
   <<"U+1E83", <<"U+1E82">>>>, <<"U+1E85", <<"U+1E84">>>>, <<"U+1E87", <<"U+1E86">>>>,
   <<"U+1E89", <<"U+1E88">>>>, <<"U+1E8B", <<"U+1E8A">>>>, <<"U+1E8D", <<"U+1E8C">>>>,
   <<"U+1E8F", <<"U+1E8E">>>>, <<"U+1E91", <<"U+1E90">>>>, <<"U+1E93", <<"U+1E92">>>>,
   <<"U+1E95", <<"U+1E94">>>>, <<"U+1E96", <<"H", "U+0331">>>>,
   <<"U+1E97", <<"T", "U+0308">>>>, <<"U+1E98", <<"W", "U+030A">>>>,
   <<"U+1E99", <<"Y", "U+030A">>>>, <<"U+1E9A", <<"A", "U+02BE">>>>,
   <<"U+1E9B", <<"U+1E60">>>>, <<"U+1EA1", <<"U+1EA0">>>>, <<"U+1EA3", <<"U+1EA2">>>>,
   <<"U+1EA5", <<"U+1EA4">>>>, <<"U+1EA7", <<"U+1EA6">>>>, <<"U+1EA9", <<"U+1EA8">>>>,
   <<"U+1EAB", <<"U+1EAA">>>>, <<"U+1EAD", <<"U+1EAC">>>>, <<"U+1EAF", <<"U+1EAE">>>>,
   <<"U+1EB1", <<"U+1EB0">>>>, <<"U+1EB3", <<"U+1EB2">>>>, <<"U+1EB5", <<"U+1EB4">>>>,
   <<"U+1EB7", <<"U+1EB6">>>>, <<"U+1EB9", <<"U+1EB8">>>>, <<"U+1EBB", <<"U+1EBA">>>>,
   <<"U+1EBD", <<"U+1EBC">>>>, <<"U+1EBF", <<"U+1EBE">>>>, <<"U+1EC1", <<"U+1EC0">>>>,
   <<"U+1EC3", <<"U+1EC2">>>>, <<"U+1EC5", <<"U+1EC4">>>>, <<"U+1EC7", <<"U+1EC6">>>>,
   <<"U+1EC9", <<"U+1EC8">>>>, <<"U+1ECB", <<"U+1ECA">>>>, <<"U+1ECD", <<"U+1ECC">>>>,
   <<"U+1ECF", <<"U+1ECE">>>>, <<"U+1ED1", <<"U+1ED0">>>>, <<"U+1ED3", <<"U+1ED2">>>>,
   <<"U+1ED5", <<"U+1ED4">>>>, <<"U+1ED7", <<"U+1ED6">>>>, <<"U+1ED9", <<"U+1ED8">>>>,
   <<"U+1EDB", <<"U+1EDA">>>>, <<"U+1EDD", <<"U+1EDC">>>>, <<"U+1EDF", <<"U+1EDE">>>>,
   <<"U+1EE1", <<"U+1EE0">>>>, <<"U+1EE3", <<"U+1EE2">>>>, <<"U+1EE5", <<"U+1EE4">>>>,
   <<"U+1EE7", <<"U+1EE6">>>>, <<"U+1EE9", <<"U+1EE8">>>>, <<"U+1EEB", <<"U+1EEA">>>>,
   <<"U+1EED", <<"U+1EEC">>>>, <<"U+1EEF", <<"U+1EEE">>>>, <<"U+1EF1", <<"U+1EF0">>>>,
   <<"U+1EF3", <<"U+1EF2">>>>, <<"U+1EF5", <<"U+1EF4">>>>, <<"U+1EF7", <<"U+1EF6">>>>,
   <<"U+1EF9", <<"U+1EF8">>>>, <<"U+1EFB", <<"U+1EFA">>>>, <<"U+1EFD", <<"U+1EFC">>>>,
   <<"U+1EFF", <<"U+1EFE">>>>, <<"U+1F00", <<"U+1F08">>>>, <<"U+1F01", <<"U+1F09">>>>,
   <<"U+1F02", <<"U+1F0A">>>>, <<"U+1F03", <<"U+1F0B">>>>, <<"U+1F04", <<"U+1F0C">>>>,
   <<"U+1F05", <<"U+1F0D">>>>, <<"U+1F06", <<"U+1F0E">>>>, <<"U+1F07", <<"U+1F0F">>>>,
   <<"U+1F10", <<"U+1F18">>>>, <<"U+1F11", <<"U+1F19">>>>, <<"U+1F12", <<"U+1F1A">>>>,
   <<"U+1F13", <<"U+1F1B">>>>, <<"U+1F14", <<"U+1F1C">>>>, <<"U+1F15", <<"U+1F1D">>>>,
   <<"U+1F20", <<"U+1F28">>>>, <<"U+1F21", <<"U+1F29">>>>, <<"U+1F22", <<"U+1F2A">>>>,
   <<"U+1F23", <<"U+1F2B">>>>, <<"U+1F24", <<"U+1F2C">>>>, <<"U+1F25", <<"U+1F2D">>>>,
   <<"U+1F26", <<"U+1F2E">>>>, <<"U+1F27", <<"U+1F2F">>>>, <<"U+1F30", <<"U+1F38">>>>,
   <<"U+1F31", <<"U+1F39">>>>, <<"U+1F32", <<"U+1F3A">>>>, <<"U+1F33", <<"U+1F3B">>>>,
   <<"U+1F34", <<"U+1F3C">>>>, <<"U+1F35", <<"U+1F3D">>>>, <<"U+1F36", <<"U+1F3E">>>>,
   <<"U+1F37", <<"U+1F3F">>>>, <<"U+1F40", <<"U+1F48">>>>, <<"U+1F41", <<"U+1F49">>>>,
   <<"U+1F42", <<"U+1F4A">>>>, <<"U+1F43", <<"U+1F4B">>>>, <<"U+1F44", <<"U+1F4C">>>>,
   <<"U+1F45", <<"U+1F4D">>>>, <<"U+1F50", <<"U+03A5", "U+0313">>>>,
   <<"U+1F51", <<"U+1F59">>>>, <<"U+1F52", <<"U+03A5", "U+0313", "U+0300">>>>,
   <<"U+1F53", <<"U+1F5B">>>>, <<"U+1F54", <<"U+03A5", "U+0313", "U+0301">>>>,
   <<"U+1F55", <<"U+1F5D">>>>, <<"U+1F56", <<"U+03A5", "U+0313", "U+0342">>>>,
   <<"U+1F57", <<"U+1F5F">>>>, <<"U+1F60", <<"U+1F68">>>>, <<"U+1F61", <<"U+1F69">>>>,
   <<"U+1F62", <<"U+1F6A">>>>, <<"U+1F63", <<"U+1F6B">>>>, <<"U+1F64", <<"U+1F6C">>>>,
   <<"U+1F65", <<"U+1F6D">>>>, <<"U+1F66", <<"U+1F6E">>>>, <<"U+1F67", <<"U+1F6F">>>>,
   <<"U+1F70", <<"U+1FBA">>>>, <<"U+1F71", <<"U+1FBB">>>>, <<"U+1F72", <<"U+1FC8">>>>,
   <<"U+1F73", <<"U+1FC9">>>>, <<"U+1F74", <<"U+1FCA">>>>, <<"U+1F75", <<"U+1FCB">>>>,
   <<"U+1F76", <<"U+1FDA">>>>, <<"U+1F77", <<"U+1FDB">>>>, <<"U+1F78", <<"U+1FF8">>>>,
   <<"U+1F79", <<"U+1FF9">>>>, <<"U+1F7A", <<"U+1FEA">>>>, <<"U+1F7B", <<"U+1FEB">>>>,
   <<"U+1F7C", <<"U+1FFA">>>>, <<"U+1F7D", <<"U+1FFB">>>>,
   <<"U+1F80", <<"U+1F08", "U+0399">>>>, <<"U+1F81", <<"U+1F09", "U+0399">>>>,
   <<"U+1F82", <<"U+1F0A", "U+0399">>>>, <<"U+1F83", <<"U+1F0B", "U+0399">>>>,
   <<"U+1F84", <<"U+1F0C", "U+0399">>>>, <<"U+1F85", <<"U+1F0D", "U+0399">>>>,
   <<"U+1F86", <<"U+1F0E", "U+0399">>>>, <<"U+1F87", <<"U+1F0F", "U+0399">>>>,
   <<"U+1F88", <<"U+1F08", "U+0399">>>>, <<"U+1F89", <<"U+1F09", "U+0399">>>>,
   <<"U+1F8A", <<"U+1F0A", "U+0399">>>>, <<"U+1F8B", <<"U+1F0B", "U+0399">>>>,
   <<"U+1F8C", <<"U+1F0C", "U+0399">>>>, <<"U+1F8D", <<"U+1F0D", "U+0399">>>>,
   <<"U+1F8E", <<"U+1F0E", "U+0399">>>>, <<"U+1F8F", <<"U+1F0F", "U+0399">>>>,
   <<"U+1F90", <<"U+1F28", "U+0399">>>>, <<"U+1F91", <<"U+1F29", "U+0399">>>>,
   <<"U+1F92", <<"U+1F2A", "U+0399">>>>, <<"U+1F93", <<"U+1F2B", "U+0399">>>>,
   <<"U+1F94", <<"U+1F2C", "U+0399">>>>, <<"U+1F95", <<"U+1F2D", "U+0399">>>>,
   <<"U+1F96", <<"U+1F2E", "U+0399">>>>, <<"U+1F97", <<"U+1F2F", "U+0399">>>>,
   <<"U+1F98", <<"U+1F28", "U+0399">>>>, <<"U+1F99", <<"U+1F29", "U+0399">>>>,
   <<"U+1F9A", <<"U+1F2A", "U+0399">>>>, <<"U+1F9B", <<"U+1F2B", "U+0399">>>>,
   <<"U+1F9C", <<"U+1F2C", "U+0399">>>>, <<"U+1F9D", <<"U+1F2D", "U+0399">>>>,
   <<"U+1F9E", <<"U+1F2E", "U+0399">>>>, <<"U+1F9F", <<"U+1F2F", "U+0399">>>>,
   <<"U+1FA0", <<"U+1F68", "U+0399">>>>, <<"U+1FA1", <<"U+1F69", "U+0399">>>>,
   <<"U+1FA2", <<"U+1F6A", "U+0399">>>>, <<"U+1FA3", <<"U+1F6B", "U+0399">>>>,
   <<"U+1FA4", <<"U+1F6C", "U+0399">>>>, <<"U+1FA5", <<"U+1F6D", "U+0399">>>>,
   <<"U+1FA6", <<"U+1F6E", "U+0399">>>>, <<"U+1FA7", <<"U+1F6F", "U+0399">>>>,
   <<"U+1FA8", <<"U+1F68", "U+0399">>>>, <<"U+1FA9", <<"U+1F69", "U+0399">>>>,
   <<"U+1FAA", <<"U+1F6A", "U+0399">>>>, <<"U+1FAB", <<"U+1F6B", "U+0399">>>>,
   <<"U+1FAC", <<"U+1F6C", "U+0399">>>>, <<"U+1FAD", <<"U+1F6D", "U+0399">>>>,
   <<"U+1FAE", <<"U+1F6E", "U+0399">>>>, <<"U+1FAF", <<"U+1F6F", "U+0399">>>>,
   <<"U+1FB0", <<"U+1FB8">>>>, <<"U+1FB1", <<"U+1FB9">>>>,
   <<"U+1FB2", <<"U+1FBA", "U+0399">>>>, <<"U+1FB3", <<"U+0391", "U+0399">>>>,
   <<"U+1FB4", <<"U+0386", "U+0399">>>>, <<"U+1FB6", <<"U+0391", "U+0342">>>>,
   <<"U+1FB7", <<"U+0391", "U+0342", "U+0399">>>>, <<"U+1FBC", <<"U+0391", "U+0399">>>>,
   <<"U+1FBE", <<"U+0399">>>>, <<"U+1FC2", <<"U+1FCA", "U+0399">>>>,
   <<"U+1FC3", <<"U+0397", "U+0399">>>>, <<"U+1FC4", <<"U+0389", "U+0399">>>>,
   <<"U+1FC6", <<"U+0397", "U+0342">>>>, <<"U+1FC7", <<"U+0397", "U+0342", "U+0399">>>>,
   <<"U+1FCC", <<"U+0397", "U+0399">>>>, <<"U+1FD0", <<"U+1FD8">>>>,
   <<"U+1FD1", <<"U+1FD9">>>>, <<"U+1FD2", <<"U+0399", "U+0308", "U+0300">>>>,
   <<"U+1FD3", <<"U+0399", "U+0308", "U+0301">>>>, <<"U+1FD6", <<"U+0399", "U+0342">>>>,
   <<"U+1FD7", <<"U+0399", "U+0308", "U+0342">>>>, <<"U+1FE0", <<"U+1FE8">>>>,
   <<"U+1FE1", <<"U+1FE9">>>>, <<"U+1FE2", <<"U+03A5", "U+0308", "U+0300">>>>,
   <<"U+1FE3", <<"U+03A5", "U+0308", "U+0301">>>>, <<"U+1FE4", <<"U+03A1", "U+0313">>>>,
   <<"U+1FE5", <<"U+1FEC">>>>, <<"U+1FE6", <<"U+03A5", "U+0342">>>>,
   <<"U+1FE7", <<"U+03A5", "U+0308", "U+0342">>>>, <<"U+1FF2", <<"U+1FFA", "U+0399">>>>,
   <<"U+1FF3", <<"U+03A9", "U+0399">>>>, <<"U+1FF4", <<"U+038F", "U+0399">>>>,
   <<"U+1FF6", <<"U+03A9", "U+0342">>>>, <<"U+1FF7", <<"U+03A9", "U+0342", "U+0399">>>>,
   <<"U+1FFC", <<"U+03A9", "U+0399">>>>, <<"U+214E", <<"U+2132">>>>,
   <<"U+2170", <<"U+2160">>>>, <<"U+2171", <<"U+2161">>>>, <<"U+2172", <<"U+2162">>>>,
   <<"U+2173", <<"U+2163">>>>, <<"U+2174", <<"U+2164">>>>, <<"U+2175", <<"U+2165">>>>,
   <<"U+2176", <<"U+2166">>>>, <<"U+2177", <<"U+2167">>>>, <<"U+2178", <<"U+2168">>>>,
   <<"U+2179", <<"U+2169">>>>, <<"U+217A", <<"U+216A">>>>, <<"U+217B", <<"U+216B">>>>,
   <<"U+217C", <<"U+216C">>>>, <<"U+217D", <<"U+216D">>>>, <<"U+217E", <<"U+216E">>>>,
   <<"U+217F", <<"U+216F">>>>, <<"U+2184", <<"U+2183">>>>, <<"U+24D0", <<"U+24B6">>>>,
   <<"U+24D1", <<"U+24B7">>>>, <<"U+24D2", <<"U+24B8">>>>, <<"U+24D3", <<"U+24B9">>>>,
   <<"U+24D4", <<"U+24BA">>>>, <<"U+24D5", <<"U+24BB">>>>, <<"U+24D6", <<"U+24BC">>>>,
   <<"U+24D7", <<"U+24BD">>>>, <<"U+24D8", <<"U+24BE">>>>, <<"U+24D9", <<"U+24BF">>>>,
   <<"U+24DA", <<"U+24C0">>>>, <<"U+24DB", <<"U+24C1">>>>, <<"U+24DC", <<"U+24C2">>>>,
   <<"U+24DD", <<"U+24C3">>>>, <<"U+24DE", <<"U+24C4">>>>, <<"U+24DF", <<"U+24C5">>>>,
   <<"U+24E0", <<"U+24C6">>>>, <<"U+24E1", <<"U+24C7">>>>, <<"U+24E2", <<"U+24C8">>>>,
   <<"U+24E3", <<"U+24C9">>>>, <<"U+24E4", <<"U+24CA">>>>, <<"U+24E5", <<"U+24CB">>>>,
   <<"U+24E6", <<"U+24CC">>>>, <<"U+24E7", <<"U+24CD">>>>, <<"U+24E8", <<"U+24CE">>>>,
   <<"U+24E9", <<"U+24CF">>>>, <<"U+2C30", <<"U+2C00">>>>, <<"U+2C31", <<"U+2C01">>>>,
   <<"U+2C32", <<"U+2C02">>>>, <<"U+2C33", <<"U+2C03">>>>, <<"U+2C34", <<"U+2C04">>>>,
   <<"U+2C35", <<"U+2C05">>>>, <<"U+2C36", <<"U+2C06">>>>, <<"U+2C37", <<"U+2C07">>>>,
   <<"U+2C38", <<"U+2C08">>>>, <<"U+2C39", <<"U+2C09">>>>, <<"U+2C3A", <<"U+2C0A">>>>,
   <<"U+2C3B", <<"U+2C0B">>>>, <<"U+2C3C", <<"U+2C0C">>>>, <<"U+2C3D", <<"U+2C0D">>>>,
   <<"U+2C3E", <<"U+2C0E">>>>, <<"U+2C3F", <<"U+2C0F">>>>, <<"U+2C40", <<"U+2C10">>>>,
   <<"U+2C41", <<"U+2C11">>>>, <<"U+2C42", <<"U+2C12">>>>, <<"U+2C43", <<"U+2C13">>>>,
   <<"U+2C44", <<"U+2C14">>>>, <<"U+2C45", <<"U+2C15">>>>, <<"U+2C46", <<"U+2C16">>>>,
   <<"U+2C47", <<"U+2C17">>>>, <<"U+2C48", <<"U+2C18">>>>, <<"U+2C49", <<"U+2C19">>>>,
   <<"U+2C4A", <<"U+2C1A">>>>, <<"U+2C4B", <<"U+2C1B">>>>, <<"U+2C4C", <<"U+2C1C">>>>,
   <<"U+2C4D", <<"U+2C1D">>>>, <<"U+2C4E", <<"U+2C1E">>>>, <<"U+2C4F", <<"U+2C1F">>>>,
   <<"U+2C50", <<"U+2C20">>>>, <<"U+2C51", <<"U+2C21">>>>, <<"U+2C52", <<"U+2C22">>>>,
   <<"U+2C53", <<"U+2C23">>>>, <<"U+2C54", <<"U+2C24">>>>, <<"U+2C55", <<"U+2C25">>>>,
   <<"U+2C56", <<"U+2C26">>>>, <<"U+2C57", <<"U+2C27">>>>, <<"U+2C58", <<"U+2C28">>>>,
   <<"U+2C59", <<"U+2C29">>>>, <<"U+2C5A", <<"U+2C2A">>>>, <<"U+2C5B", <<"U+2C2B">>>>,
   <<"U+2C5C", <<"U+2C2C">>>>, <<"U+2C5D", <<"U+2C2D">>>>, <<"U+2C5E", <<"U+2C2E">>>>,
   <<"U+2C5F", <<"U+2C2F">>>>, <<"U+2C61", <<"U+2C60">>>>, <<"U+2C65", <<"U+023A">>>>,
   <<"U+2C66", <<"U+023E">>>>, <<"U+2C68", <<"U+2C67">>>>, <<"U+2C6A", <<"U+2C69">>>>,
   <<"U+2C6C", <<"U+2C6B">>>>, <<"U+2C73", <<"U+2C72">>>>, <<"U+2C76", <<"U+2C75">>>>,
   <<"U+2C81", <<"U+2C80">>>>, <<"U+2C83", <<"U+2C82">>>>, <<"U+2C85", <<"U+2C84">>>>,
   <<"U+2C87", <<"U+2C86">>>>, <<"U+2C89", <<"U+2C88">>>>, <<"U+2C8B", <<"U+2C8A">>>>,
   <<"U+2C8D", <<"U+2C8C">>>>, <<"U+2C8F", <<"U+2C8E">>>>, <<"U+2C91", <<"U+2C90">>>>,
   <<"U+2C93", <<"U+2C92">>>>, <<"U+2C95", <<"U+2C94">>>>, <<"U+2C97", <<"U+2C96">>>>,
   <<"U+2C99", <<"U+2C98">>>>, <<"U+2C9B", <<"U+2C9A">>>>, <<"U+2C9D", <<"U+2C9C">>>>,
   <<"U+2C9F", <<"U+2C9E">>>>, <<"U+2CA1", <<"U+2CA0">>>>, <<"U+2CA3", <<"U+2CA2">>>>,
   <<"U+2CA5", <<"U+2CA4">>>>, <<"U+2CA7", <<"U+2CA6">>>>, <<"U+2CA9", <<"U+2CA8">>>>,
   <<"U+2CAB", <<"U+2CAA">>>>, <<"U+2CAD", <<"U+2CAC">>>>, <<"U+2CAF", <<"U+2CAE">>>>,
   <<"U+2CB1", <<"U+2CB0">>>>, <<"U+2CB3", <<"U+2CB2">>>>, <<"U+2CB5", <<"U+2CB4">>>>,
   <<"U+2CB7", <<"U+2CB6">>>>, <<"U+2CB9", <<"U+2CB8">>>>, <<"U+2CBB", <<"U+2CBA">>>>,
   <<"U+2CBD", <<"U+2CBC">>>>, <<"U+2CBF", <<"U+2CBE">>>>, <<"U+2CC1", <<"U+2CC0">>>>,
   <<"U+2CC3", <<"U+2CC2">>>>, <<"U+2CC5", <<"U+2CC4">>>>, <<"U+2CC7", <<"U+2CC6">>>>,
   <<"U+2CC9", <<"U+2CC8">>>>, <<"U+2CCB", <<"U+2CCA">>>>, <<"U+2CCD", <<"U+2CCC">>>>,
   <<"U+2CCF", <<"U+2CCE">>>>, <<"U+2CD1", <<"U+2CD0">>>>, <<"U+2CD3", <<"U+2CD2">>>>,
   <<"U+2CD5", <<"U+2CD4">>>>, <<"U+2CD7", <<"U+2CD6">>>>, <<"U+2CD9", <<"U+2CD8">>>>,
   <<"U+2CDB", <<"U+2CDA">>>>, <<"U+2CDD", <<"U+2CDC">>>>, <<"U+2CDF", <<"U+2CDE">>>>,
   <<"U+2CE1", <<"U+2CE0">>>>, <<"U+2CE3", <<"U+2CE2">>>>, <<"U+2CEC", <<"U+2CEB">>>>,
   <<"U+2CEE", <<"U+2CED">>>>, <<"U+2CF3", <<"U+2CF2">>>>, <<"U+2D00", <<"U+10A0">>>>,
   <<"U+2D01", <<"U+10A1">>>>, <<"U+2D02", <<"U+10A2">>>>, <<"U+2D03", <<"U+10A3">>>>,
   <<"U+2D04", <<"U+10A4">>>>, <<"U+2D05", <<"U+10A5">>>>, <<"U+2D06", <<"U+10A6">>>>,
   <<"U+2D07", <<"U+10A7">>>>, <<"U+2D08", <<"U+10A8">>>>, <<"U+2D09", <<"U+10A9">>>>,
   <<"U+2D0A", <<"U+10AA">>>>, <<"U+2D0B", <<"U+10AB">>>>, <<"U+2D0C", <<"U+10AC">>>>,
   <<"U+2D0D", <<"U+10AD">>>>, <<"U+2D0E", <<"U+10AE">>>>, <<"U+2D0F", <<"U+10AF">>>>,
   <<"U+2D10", <<"U+10B0">>>>, <<"U+2D11", <<"U+10B1">>>>, <<"U+2D12", <<"U+10B2">>>>,
   <<"U+2D13", <<"U+10B3">>>>, <<"U+2D14", <<"U+10B4">>>>, <<"U+2D15", <<"U+10B5">>>>,
   <<"U+2D16", <<"U+10B6">>>>, <<"U+2D17", <<"U+10B7">>>>, <<"U+2D18", <<"U+10B8">>>>,
   <<"U+2D19", <<"U+10B9">>>>, <<"U+2D1A", <<"U+10BA">>>>, <<"U+2D1B", <<"U+10BB">>>>,
   <<"U+2D1C", <<"U+10BC">>>>, <<"U+2D1D", <<"U+10BD">>>>, <<"U+2D1E", <<"U+10BE">>>>,
   <<"U+2D1F", <<"U+10BF">>>>, <<"U+2D20", <<"U+10C0">>>>, <<"U+2D21", <<"U+10C1">>>>,
   <<"U+2D22", <<"U+10C2">>>>, <<"U+2D23", <<"U+10C3">>>>, <<"U+2D24", <<"U+10C4">>>>,
   <<"U+2D25", <<"U+10C5">>>>, <<"U+2D27", <<"U+10C7">>>>, <<"U+2D2D", <<"U+10CD">>>>,
   <<"U+A641", <<"U+A640">>>>, <<"U+A643", <<"U+A642">>>>, <<"U+A645", <<"U+A644">>>>,
   <<"U+A647", <<"U+A646">>>>, <<"U+A649", <<"U+A648">>>>, <<"U+A64B", <<"U+A64A">>>>,
   <<"U+A64D", <<"U+A64C">>>>, <<"U+A64F", <<"U+A64E">>>>, <<"U+A651", <<"U+A650">>>>,
   <<"U+A653", <<"U+A652">>>>, <<"U+A655", <<"U+A654">>>>, <<"U+A657", <<"U+A656">>>>,
   <<"U+A659", <<"U+A658">>>>, <<"U+A65B", <<"U+A65A">>>>, <<"U+A65D", <<"U+A65C">>>>,
   <<"U+A65F", <<"U+A65E">>>>, <<"U+A661", <<"U+A660">>>>, <<"U+A663", <<"U+A662">>>>,
   <<"U+A665", <<"U+A664">>>>, <<"U+A667", <<"U+A666">>>>, <<"U+A669", <<"U+A668">>>>,
   <<"U+A66B", <<"U+A66A">>>>, <<"U+A66D", <<"U+A66C">>>>, <<"U+A681", <<"U+A680">>>>,
   <<"U+A683", <<"U+A682">>>>, <<"U+A685", <<"U+A684">>>>, <<"U+A687", <<"U+A686">>>>,
   <<"U+A689", <<"U+A688">>>>, <<"U+A68B", <<"U+A68A">>>>, <<"U+A68D", <<"U+A68C">>>>,
   <<"U+A68F", <<"U+A68E">>>>, <<"U+A691", <<"U+A690">>>>, <<"U+A693", <<"U+A692">>>>,
   <<"U+A695", <<"U+A694">>>>, <<"U+A697", <<"U+A696">>>>, <<"U+A699", <<"U+A698">>>>,
   <<"U+A69B", <<"U+A69A">>>>, <<"U+A723", <<"U+A722">>>>, <<"U+A725", <<"U+A724">>>>,
   <<"U+A727", <<"U+A726">>>>, <<"U+A729", <<"U+A728">>>>, <<"U+A72B", <<"U+A72A">>>>,
   <<"U+A72D", <<"U+A72C">>>>, <<"U+A72F", <<"U+A72E">>>>, <<"U+A733", <<"U+A732">>>>,
   <<"U+A735", <<"U+A734">>>>, <<"U+A737", <<"U+A736">>>>, <<"U+A739", <<"U+A738">>>>,
   <<"U+A73B", <<"U+A73A">>>>, <<"U+A73D", <<"U+A73C">>>>, <<"U+A73F", <<"U+A73E">>>>,
   <<"U+A741", <<"U+A740">>>>, <<"U+A743", <<"U+A742">>>>, <<"U+A745", <<"U+A744">>>>,
   <<"U+A747", <<"U+A746">>>>, <<"U+A749", <<"U+A748">>>>, <<"U+A74B", <<"U+A74A">>>>,
   <<"U+A74D", <<"U+A74C">>>>, <<"U+A74F", <<"U+A74E">>>>, <<"U+A751", <<"U+A750">>>>,
   <<"U+A753", <<"U+A752">>>>, <<"U+A755", <<"U+A754">>>>, <<"U+A757", <<"U+A756">>>>,
   <<"U+A759", <<"U+A758">>>>, <<"U+A75B", <<"U+A75A">>>>, <<"U+A75D", <<"U+A75C">>>>,
   <<"U+A75F", <<"U+A75E">>>>, <<"U+A761", <<"U+A760">>>>, <<"U+A763", <<"U+A762">>>>,
   <<"U+A765", <<"U+A764">>>>, <<"U+A767", <<"U+A766">>>>, <<"U+A769", <<"U+A768">>>>,
   <<"U+A76B", <<"U+A76A">>>>, <<"U+A76D", <<"U+A76C">>>>, <<"U+A76F", <<"U+A76E">>>>,
   <<"U+A77A", <<"U+A779">>>>, <<"U+A77C", <<"U+A77B">>>>, <<"U+A77F", <<"U+A77E">>>>,
   <<"U+A781", <<"U+A780">>>>, <<"U+A783", <<"U+A782">>>>, <<"U+A785", <<"U+A784">>>>,
   <<"U+A787", <<"U+A786">>>>, <<"U+A78C", <<"U+A78B">>>>, <<"U+A791", <<"U+A790">>>>,
   <<"U+A793", <<"U+A792">>>>, <<"U+A794", <<"U+A7C4">>>>, <<"U+A797", <<"U+A796">>>>,
   <<"U+A799", <<"U+A798">>>>, <<"U+A79B", <<"U+A79A">>>>, <<"U+A79D", <<"U+A79C">>>>,
   <<"U+A79F", <<"U+A79E">>>>, <<"U+A7A1", <<"U+A7A0">>>>, <<"U+A7A3", <<"U+A7A2">>>>,
   <<"U+A7A5", <<"U+A7A4">>>>, <<"U+A7A7", <<"U+A7A6">>>>, <<"U+A7A9", <<"U+A7A8">>>>,
   <<"U+A7B5", <<"U+A7B4">>>>, <<"U+A7B7", <<"U+A7B6">>>>, <<"U+A7B9", <<"U+A7B8">>>>,
   <<"U+A7BB", <<"U+A7BA">>>>, <<"U+A7BD", <<"U+A7BC">>>>, <<"U+A7BF", <<"U+A7BE">>>>,
   <<"U+A7C1", <<"U+A7C0">>>>, <<"U+A7C3", <<"U+A7C2">>>>, <<"U+A7C8", <<"U+A7C7">>>>,
   <<"U+A7CA", <<"U+A7C9">>>>, <<"U+A7CD", <<"U+A7CC">>>>, <<"U+A7CF", <<"U+A7CE">>>>,
   <<"U+A7D1", <<"U+A7D0">>>>, <<"U+A7D3", <<"U+A7D2">>>>, <<"U+A7D5", <<"U+A7D4">>>>,
   <<"U+A7D7", <<"U+A7D6">>>>, <<"U+A7D9", <<"U+A7D8">>>>, <<"U+A7DB", <<"U+A7DA">>>>,
   <<"U+A7F6", <<"U+A7F5">>>>, <<"U+AB53", <<"U+A7B3">>>>, <<"U+AB70", <<"U+13A0">>>>,
   <<"U+AB71", <<"U+13A1">>>>, <<"U+AB72", <<"U+13A2">>>>, <<"U+AB73", <<"U+13A3">>>>,
   <<"U+AB74", <<"U+13A4">>>>, <<"U+AB75", <<"U+13A5">>>>, <<"U+AB76", <<"U+13A6">>>>,
   <<"U+AB77", <<"U+13A7">>>>, <<"U+AB78", <<"U+13A8">>>>, <<"U+AB79", <<"U+13A9">>>>,
   <<"U+AB7A", <<"U+13AA">>>>, <<"U+AB7B", <<"U+13AB">>>>, <<"U+AB7C", <<"U+13AC">>>>,
   <<"U+AB7D", <<"U+13AD">>>>, <<"U+AB7E", <<"U+13AE">>>>, <<"U+AB7F", <<"U+13AF">>>>,
   <<"U+AB80", <<"U+13B0">>>>, <<"U+AB81", <<"U+13B1">>>>, <<"U+AB82", <<"U+13B2">>>>,
   <<"U+AB83", <<"U+13B3">>>>, <<"U+AB84", <<"U+13B4">>>>, <<"U+AB85", <<"U+13B5">>>>,
   <<"U+AB86", <<"U+13B6">>>>, <<"U+AB87", <<"U+13B7">>>>, <<"U+AB88", <<"U+13B8">>>>,
   <<"U+AB89", <<"U+13B9">>>>, <<"U+AB8A", <<"U+13BA">>>>, <<"U+AB8B", <<"U+13BB">>>>,
   <<"U+AB8C", <<"U+13BC">>>>, <<"U+AB8D", <<"U+13BD">>>>, <<"U+AB8E", <<"U+13BE">>>>,
   <<"U+AB8F", <<"U+13BF">>>>, <<"U+AB90", <<"U+13C0">>>>, <<"U+AB91", <<"U+13C1">>>>,
   <<"U+AB92", <<"U+13C2">>>>, <<"U+AB93", <<"U+13C3">>>>, <<"U+AB94", <<"U+13C4">>>>,
   <<"U+AB95", <<"U+13C5">>>>, <<"U+AB96", <<"U+13C6">>>>, <<"U+AB97", <<"U+13C7">>>>,
   <<"U+AB98", <<"U+13C8">>>>, <<"U+AB99", <<"U+13C9">>>>, <<"U+AB9A", <<"U+13CA">>>>,
   <<"U+AB9B", <<"U+13CB">>>>, <<"U+AB9C", <<"U+13CC">>>>, <<"U+AB9D", <<"U+13CD">>>>,
   <<"U+AB9E", <<"U+13CE">>>>, <<"U+AB9F", <<"U+13CF">>>>, <<"U+ABA0", <<"U+13D0">>>>,
   <<"U+ABA1", <<"U+13D1">>>>, <<"U+ABA2", <<"U+13D2">>>>, <<"U+ABA3", <<"U+13D3">>>>,
   <<"U+ABA4", <<"U+13D4">>>>, <<"U+ABA5", <<"U+13D5">>>>, <<"U+ABA6", <<"U+13D6">>>>,
   <<"U+ABA7", <<"U+13D7">>>>, <<"U+ABA8", <<"U+13D8">>>>, <<"U+ABA9", <<"U+13D9">>>>,
   <<"U+ABAA", <<"U+13DA">>>>, <<"U+ABAB", <<"U+13DB">>>>, <<"U+ABAC", <<"U+13DC">>>>,
   <<"U+ABAD", <<"U+13DD">>>>, <<"U+ABAE", <<"U+13DE">>>>, <<"U+ABAF", <<"U+13DF">>>>,
   <<"U+ABB0", <<"U+13E0">>>>, <<"U+ABB1", <<"U+13E1">>>>, <<"U+ABB2", <<"U+13E2">>>>,
   <<"U+ABB3", <<"U+13E3">>>>, <<"U+ABB4", <<"U+13E4">>>>, <<"U+ABB5", <<"U+13E5">>>>,
   <<"U+ABB6", <<"U+13E6">>>>, <<"U+ABB7", <<"U+13E7">>>>, <<"U+ABB8", <<"U+13E8">>>>,
   <<"U+ABB9", <<"U+13E9">>>>, <<"U+ABBA", <<"U+13EA">>>>, <<"U+ABBB", <<"U+13EB">>>>,
   <<"U+ABBC", <<"U+13EC">>>>, <<"U+ABBD", <<"U+13ED">>>>, <<"U+ABBE", <<"U+13EE">>>>,
   <<"U+ABBF", <<"U+13EF">>>>, <<"U+FB00", <<"F", "F">>>>, <<"U+FB01", <<"F", "I">>>>,
   <<"U+FB02", <<"F", "L">>>>, <<"U+FB03", <<"F", "F", "I">>>>,
   <<"U+FB04", <<"F", "F", "L">>>>, <<"U+FB05", <<"S", "T">>>>, <<"U+FB06", <<"S", "T">>>>,
   <<"U+FB13", <<"U+0544", "U+0546">>>>, <<"U+FB14", <<"U+0544", "U+0535">>>>,
   <<"U+FB15", <<"U+0544", "U+053B">>>>, <<"U+FB16", <<"U+054E", "U+0546">>>>,
   <<"U+FB17", <<"U+0544", "U+053D">>>>, <<"U+FF41", <<"U+FF21">>>>,
   <<"U+FF42", <<"U+FF22">>>>, <<"U+FF43", <<"U+FF23">>>>, <<"U+FF44", <<"U+FF24">>>>,
   <<"U+FF45", <<"U+FF25">>>>, <<"U+FF46", <<"U+FF26">>>>, <<"U+FF47", <<"U+FF27">>>>,
   <<"U+FF48", <<"U+FF28">>>>, <<"U+FF49", <<"U+FF29">>>>, <<"U+FF4A", <<"U+FF2A">>>>,
   <<"U+FF4B", <<"U+FF2B">>>>, <<"U+FF4C", <<"U+FF2C">>>>, <<"U+FF4D", <<"U+FF2D">>>>,
   <<"U+FF4E", <<"U+FF2E">>>>, <<"U+FF4F", <<"U+FF2F">>>>, <<"U+FF50", <<"U+FF30">>>>,
   <<"U+FF51", <<"U+FF31">>>>, <<"U+FF52", <<"U+FF32">>>>, <<"U+FF53", <<"U+FF33">>>>,
   <<"U+FF54", <<"U+FF34">>>>, <<"U+FF55", <<"U+FF35">>>>, <<"U+FF56", <<"U+FF36">>>>,
   <<"U+FF57", <<"U+FF37">>>>, <<"U+FF58", <<"U+FF38">>>>, <<"U+FF59", <<"U+FF39">>>>,
   <<"U+FF5A", <<"U+FF3A">>>>}

\* The code points above U+FFFF with an uppercase mapping different from
\* themselves, each written as its surrogate pair, with the pair it maps to.
SurrogateUpperPairs ==
  {<<<<"U+D801", "U+DC28">>, <<"U+D801", "U+DC00">>>>,
   <<<<"U+D801", "U+DC29">>, <<"U+D801", "U+DC01">>>>,
   <<<<"U+D801", "U+DC2A">>, <<"U+D801", "U+DC02">>>>,
   <<<<"U+D801", "U+DC2B">>, <<"U+D801", "U+DC03">>>>,
   <<<<"U+D801", "U+DC2C">>, <<"U+D801", "U+DC04">>>>,
   <<<<"U+D801", "U+DC2D">>, <<"U+D801", "U+DC05">>>>,
   <<<<"U+D801", "U+DC2E">>, <<"U+D801", "U+DC06">>>>,
   <<<<"U+D801", "U+DC2F">>, <<"U+D801", "U+DC07">>>>,
   <<<<"U+D801", "U+DC30">>, <<"U+D801", "U+DC08">>>>,
   <<<<"U+D801", "U+DC31">>, <<"U+D801", "U+DC09">>>>,
   <<<<"U+D801", "U+DC32">>, <<"U+D801", "U+DC0A">>>>,
   <<<<"U+D801", "U+DC33">>, <<"U+D801", "U+DC0B">>>>,
   <<<<"U+D801", "U+DC34">>, <<"U+D801", "U+DC0C">>>>,
   <<<<"U+D801", "U+DC35">>, <<"U+D801", "U+DC0D">>>>,
   <<<<"U+D801", "U+DC36">>, <<"U+D801", "U+DC0E">>>>,
   <<<<"U+D801", "U+DC37">>, <<"U+D801", "U+DC0F">>>>,
   <<<<"U+D801", "U+DC38">>, <<"U+D801", "U+DC10">>>>,
   <<<<"U+D801", "U+DC39">>, <<"U+D801", "U+DC11">>>>,
   <<<<"U+D801", "U+DC3A">>, <<"U+D801", "U+DC12">>>>,
   <<<<"U+D801", "U+DC3B">>, <<"U+D801", "U+DC13">>>>,
   <<<<"U+D801", "U+DC3C">>, <<"U+D801", "U+DC14">>>>,
   <<<<"U+D801", "U+DC3D">>, <<"U+D801", "U+DC15">>>>,
   <<<<"U+D801", "U+DC3E">>, <<"U+D801", "U+DC16">>>>,
   <<<<"U+D801", "U+DC3F">>, <<"U+D801", "U+DC17">>>>,
   <<<<"U+D801", "U+DC40">>, <<"U+D801", "U+DC18">>>>,
   <<<<"U+D801", "U+DC41">>, <<"U+D801", "U+DC19">>>>,
   <<<<"U+D801", "U+DC42">>, <<"U+D801", "U+DC1A">>>>,
   <<<<"U+D801", "U+DC43">>, <<"U+D801", "U+DC1B">>>>,
   <<<<"U+D801", "U+DC44">>, <<"U+D801", "U+DC1C">>>>,
   <<<<"U+D801", "U+DC45">>, <<"U+D801", "U+DC1D">>>>,
   <<<<"U+D801", "U+DC46">>, <<"U+D801", "U+DC1E">>>>,
   <<<<"U+D801", "U+DC47">>, <<"U+D801", "U+DC1F">>>>,
   <<<<"U+D801", "U+DC48">>, <<"U+D801", "U+DC20">>>>,
   <<<<"U+D801", "U+DC49">>, <<"U+D801", "U+DC21">>>>,
   <<<<"U+D801", "U+DC4A">>, <<"U+D801", "U+DC22">>>>,
   <<<<"U+D801", "U+DC4B">>, <<"U+D801", "U+DC23">>>>,
   <<<<"U+D801", "U+DC4C">>, <<"U+D801", "U+DC24">>>>,
   <<<<"U+D801", "U+DC4D">>, <<"U+D801", "U+DC25">>>>,
   <<<<"U+D801", "U+DC4E">>, <<"U+D801", "U+DC26">>>>,
   <<<<"U+D801", "U+DC4F">>, <<"U+D801", "U+DC27">>>>,
   <<<<"U+D801", "U+DCD8">>, <<"U+D801", "U+DCB0">>>>,
   <<<<"U+D801", "U+DCD9">>, <<"U+D801", "U+DCB1">>>>,
   <<<<"U+D801", "U+DCDA">>, <<"U+D801", "U+DCB2">>>>,
   <<<<"U+D801", "U+DCDB">>, <<"U+D801", "U+DCB3">>>>,
   <<<<"U+D801", "U+DCDC">>, <<"U+D801", "U+DCB4">>>>,
   <<<<"U+D801", "U+DCDD">>, <<"U+D801", "U+DCB5">>>>,
   <<<<"U+D801", "U+DCDE">>, <<"U+D801", "U+DCB6">>>>,
   <<<<"U+D801", "U+DCDF">>, <<"U+D801", "U+DCB7">>>>,
   <<<<"U+D801", "U+DCE0">>, <<"U+D801", "U+DCB8">>>>,
   <<<<"U+D801", "U+DCE1">>, <<"U+D801", "U+DCB9">>>>,
   <<<<"U+D801", "U+DCE2">>, <<"U+D801", "U+DCBA">>>>,
   <<<<"U+D801", "U+DCE3">>, <<"U+D801", "U+DCBB">>>>,
   <<<<"U+D801", "U+DCE4">>, <<"U+D801", "U+DCBC">>>>,
   <<<<"U+D801", "U+DCE5">>, <<"U+D801", "U+DCBD">>>>,
   <<<<"U+D801", "U+DCE6">>, <<"U+D801", "U+DCBE">>>>,
   <<<<"U+D801", "U+DCE7">>, <<"U+D801", "U+DCBF">>>>,
   <<<<"U+D801", "U+DCE8">>, <<"U+D801", "U+DCC0">>>>,
   <<<<"U+D801", "U+DCE9">>, <<"U+D801", "U+DCC1">>>>,
   <<<<"U+D801", "U+DCEA">>, <<"U+D801", "U+DCC2">>>>,
   <<<<"U+D801", "U+DCEB">>, <<"U+D801", "U+DCC3">>>>,
   <<<<"U+D801", "U+DCEC">>, <<"U+D801", "U+DCC4">>>>,
   <<<<"U+D801", "U+DCED">>, <<"U+D801", "U+DCC5">>>>,
   <<<<"U+D801", "U+DCEE">>, <<"U+D801", "U+DCC6">>>>,
   <<<<"U+D801", "U+DCEF">>, <<"U+D801", "U+DCC7">>>>,
   <<<<"U+D801", "U+DCF0">>, <<"U+D801", "U+DCC8">>>>,
   <<<<"U+D801", "U+DCF1">>, <<"U+D801", "U+DCC9">>>>,
   <<<<"U+D801", "U+DCF2">>, <<"U+D801", "U+DCCA">>>>,
   <<<<"U+D801", "U+DCF3">>, <<"U+D801", "U+DCCB">>>>,
   <<<<"U+D801", "U+DCF4">>, <<"U+D801", "U+DCCC">>>>,
   <<<<"U+D801", "U+DCF5">>, <<"U+D801", "U+DCCD">>>>,
   <<<<"U+D801", "U+DCF6">>, <<"U+D801", "U+DCCE">>>>,
   <<<<"U+D801", "U+DCF7">>, <<"U+D801", "U+DCCF">>>>,
   <<<<"U+D801", "U+DCF8">>, <<"U+D801", "U+DCD0">>>>,
   <<<<"U+D801", "U+DCF9">>, <<"U+D801", "U+DCD1">>>>,
   <<<<"U+D801", "U+DCFA">>, <<"U+D801", "U+DCD2">>>>,
   <<<<"U+D801", "U+DCFB">>, <<"U+D801", "U+DCD3">>>>,
   <<<<"U+D801", "U+DD97">>, <<"U+D801", "U+DD70">>>>,
   <<<<"U+D801", "U+DD98">>, <<"U+D801", "U+DD71">>>>,
   <<<<"U+D801", "U+DD99">>, <<"U+D801", "U+DD72">>>>,
   <<<<"U+D801", "U+DD9A">>, <<"U+D801", "U+DD73">>>>,
   <<<<"U+D801", "U+DD9B">>, <<"U+D801", "U+DD74">>>>,
   <<<<"U+D801", "U+DD9C">>, <<"U+D801", "U+DD75">>>>,
   <<<<"U+D801", "U+DD9D">>, <<"U+D801", "U+DD76">>>>,
   <<<<"U+D801", "U+DD9E">>, <<"U+D801", "U+DD77">>>>,
   <<<<"U+D801", "U+DD9F">>, <<"U+D801", "U+DD78">>>>,
   <<<<"U+D801", "U+DDA0">>, <<"U+D801", "U+DD79">>>>,
   <<<<"U+D801", "U+DDA1">>, <<"U+D801", "U+DD7A">>>>,
   <<<<"U+D801", "U+DDA3">>, <<"U+D801", "U+DD7C">>>>,
   <<<<"U+D801", "U+DDA4">>, <<"U+D801", "U+DD7D">>>>,
   <<<<"U+D801", "U+DDA5">>, <<"U+D801", "U+DD7E">>>>,
   <<<<"U+D801", "U+DDA6">>, <<"U+D801", "U+DD7F">>>>,
   <<<<"U+D801", "U+DDA7">>, <<"U+D801", "U+DD80">>>>,
   <<<<"U+D801", "U+DDA8">>, <<"U+D801", "U+DD81">>>>,
   <<<<"U+D801", "U+DDA9">>, <<"U+D801", "U+DD82">>>>,
   <<<<"U+D801", "U+DDAA">>, <<"U+D801", "U+DD83">>>>,
   <<<<"U+D801", "U+DDAB">>, <<"U+D801", "U+DD84">>>>,
   <<<<"U+D801", "U+DDAC">>, <<"U+D801", "U+DD85">>>>,
   <<<<"U+D801", "U+DDAD">>, <<"U+D801", "U+DD86">>>>,
   <<<<"U+D801", "U+DDAE">>, <<"U+D801", "U+DD87">>>>,
   <<<<"U+D801", "U+DDAF">>, <<"U+D801", "U+DD88">>>>,
   <<<<"U+D801", "U+DDB0">>, <<"U+D801", "U+DD89">>>>,
   <<<<"U+D801", "U+DDB1">>, <<"U+D801", "U+DD8A">>>>,
   <<<<"U+D801", "U+DDB3">>, <<"U+D801", "U+DD8C">>>>,
   <<<<"U+D801", "U+DDB4">>, <<"U+D801", "U+DD8D">>>>,
   <<<<"U+D801", "U+DDB5">>, <<"U+D801", "U+DD8E">>>>,
   <<<<"U+D801", "U+DDB6">>, <<"U+D801", "U+DD8F">>>>,
   <<<<"U+D801", "U+DDB7">>, <<"U+D801", "U+DD90">>>>,
   <<<<"U+D801", "U+DDB8">>, <<"U+D801", "U+DD91">>>>,
   <<<<"U+D801", "U+DDB9">>, <<"U+D801", "U+DD92">>>>,
   <<<<"U+D801", "U+DDBB">>, <<"U+D801", "U+DD94">>>>,
   <<<<"U+D801", "U+DDBC">>, <<"U+D801", "U+DD95">>>>,
   <<<<"U+D803", "U+DCC0">>, <<"U+D803", "U+DC80">>>>,
   <<<<"U+D803", "U+DCC1">>, <<"U+D803", "U+DC81">>>>,
   <<<<"U+D803", "U+DCC2">>, <<"U+D803", "U+DC82">>>>,
   <<<<"U+D803", "U+DCC3">>, <<"U+D803", "U+DC83">>>>,
   <<<<"U+D803", "U+DCC4">>, <<"U+D803", "U+DC84">>>>,
   <<<<"U+D803", "U+DCC5">>, <<"U+D803", "U+DC85">>>>,
   <<<<"U+D803", "U+DCC6">>, <<"U+D803", "U+DC86">>>>,
   <<<<"U+D803", "U+DCC7">>, <<"U+D803", "U+DC87">>>>,
   <<<<"U+D803", "U+DCC8">>, <<"U+D803", "U+DC88">>>>,
   <<<<"U+D803", "U+DCC9">>, <<"U+D803", "U+DC89">>>>,
   <<<<"U+D803", "U+DCCA">>, <<"U+D803", "U+DC8A">>>>,
   <<<<"U+D803", "U+DCCB">>, <<"U+D803", "U+DC8B">>>>,
   <<<<"U+D803", "U+DCCC">>, <<"U+D803", "U+DC8C">>>>,
   <<<<"U+D803", "U+DCCD">>, <<"U+D803", "U+DC8D">>>>,
   <<<<"U+D803", "U+DCCE">>, <<"U+D803", "U+DC8E">>>>,
   <<<<"U+D803", "U+DCCF">>, <<"U+D803", "U+DC8F">>>>,
   <<<<"U+D803", "U+DCD0">>, <<"U+D803", "U+DC90">>>>,
   <<<<"U+D803", "U+DCD1">>, <<"U+D803", "U+DC91">>>>,
   <<<<"U+D803", "U+DCD2">>, <<"U+D803", "U+DC92">>>>,
   <<<<"U+D803", "U+DCD3">>, <<"U+D803", "U+DC93">>>>,
   <<<<"U+D803", "U+DCD4">>, <<"U+D803", "U+DC94">>>>,
   <<<<"U+D803", "U+DCD5">>, <<"U+D803", "U+DC95">>>>,
   <<<<"U+D803", "U+DCD6">>, <<"U+D803", "U+DC96">>>>,
   <<<<"U+D803", "U+DCD7">>, <<"U+D803", "U+DC97">>>>,
   <<<<"U+D803", "U+DCD8">>, <<"U+D803", "U+DC98">>>>,
   <<<<"U+D803", "U+DCD9">>, <<"U+D803", "U+DC99">>>>,
   <<<<"U+D803", "U+DCDA">>, <<"U+D803", "U+DC9A">>>>,
   <<<<"U+D803", "U+DCDB">>, <<"U+D803", "U+DC9B">>>>,
   <<<<"U+D803", "U+DCDC">>, <<"U+D803", "U+DC9C">>>>,
   <<<<"U+D803", "U+DCDD">>, <<"U+D803", "U+DC9D">>>>,
   <<<<"U+D803", "U+DCDE">>, <<"U+D803", "U+DC9E">>>>,
   <<<<"U+D803", "U+DCDF">>, <<"U+D803", "U+DC9F">>>>,
   <<<<"U+D803", "U+DCE0">>, <<"U+D803", "U+DCA0">>>>,
   <<<<"U+D803", "U+DCE1">>, <<"U+D803", "U+DCA1">>>>,
   <<<<"U+D803", "U+DCE2">>, <<"U+D803", "U+DCA2">>>>,
   <<<<"U+D803", "U+DCE3">>, <<"U+D803", "U+DCA3">>>>,
   <<<<"U+D803", "U+DCE4">>, <<"U+D803", "U+DCA4">>>>,
   <<<<"U+D803", "U+DCE5">>, <<"U+D803", "U+DCA5">>>>,
   <<<<"U+D803", "U+DCE6">>, <<"U+D803", "U+DCA6">>>>,
   <<<<"U+D803", "U+DCE7">>, <<"U+D803", "U+DCA7">>>>,
   <<<<"U+D803", "U+DCE8">>, <<"U+D803", "U+DCA8">>>>,
   <<<<"U+D803", "U+DCE9">>, <<"U+D803", "U+DCA9">>>>,
   <<<<"U+D803", "U+DCEA">>, <<"U+D803", "U+DCAA">>>>,
   <<<<"U+D803", "U+DCEB">>, <<"U+D803", "U+DCAB">>>>,
   <<<<"U+D803", "U+DCEC">>, <<"U+D803", "U+DCAC">>>>,
   <<<<"U+D803", "U+DCED">>, <<"U+D803", "U+DCAD">>>>,
   <<<<"U+D803", "U+DCEE">>, <<"U+D803", "U+DCAE">>>>,
   <<<<"U+D803", "U+DCEF">>, <<"U+D803", "U+DCAF">>>>,
   <<<<"U+D803", "U+DCF0">>, <<"U+D803", "U+DCB0">>>>,
   <<<<"U+D803", "U+DCF1">>, <<"U+D803", "U+DCB1">>>>,
   <<<<"U+D803", "U+DCF2">>, <<"U+D803", "U+DCB2">>>>,
   <<<<"U+D803", "U+DD70">>, <<"U+D803", "U+DD50">>>>,
   <<<<"U+D803", "U+DD71">>, <<"U+D803", "U+DD51">>>>,
   <<<<"U+D803", "U+DD72">>, <<"U+D803", "U+DD52">>>>,
   <<<<"U+D803", "U+DD73">>, <<"U+D803", "U+DD53">>>>,
   <<<<"U+D803", "U+DD74">>, <<"U+D803", "U+DD54">>>>,
   <<<<"U+D803", "U+DD75">>, <<"U+D803", "U+DD55">>>>,
   <<<<"U+D803", "U+DD76">>, <<"U+D803", "U+DD56">>>>,
   <<<<"U+D803", "U+DD77">>, <<"U+D803", "U+DD57">>>>,
   <<<<"U+D803", "U+DD78">>, <<"U+D803", "U+DD58">>>>,
   <<<<"U+D803", "U+DD79">>, <<"U+D803", "U+DD59">>>>,
   <<<<"U+D803", "U+DD7A">>, <<"U+D803", "U+DD5A">>>>,
   <<<<"U+D803", "U+DD7B">>, <<"U+D803", "U+DD5B">>>>,
   <<<<"U+D803", "U+DD7C">>, <<"U+D803", "U+DD5C">>>>,
   <<<<"U+D803", "U+DD7D">>, <<"U+D803", "U+DD5D">>>>,
   <<<<"U+D803", "U+DD7E">>, <<"U+D803", "U+DD5E">>>>,
   <<<<"U+D803", "U+DD7F">>, <<"U+D803", "U+DD5F">>>>,
   <<<<"U+D803", "U+DD80">>, <<"U+D803", "U+DD60">>>>,
   <<<<"U+D803", "U+DD81">>, <<"U+D803", "U+DD61">>>>,
   <<<<"U+D803", "U+DD82">>, <<"U+D803", "U+DD62">>>>,
   <<<<"U+D803", "U+DD83">>, <<"U+D803", "U+DD63">>>>,
   <<<<"U+D803", "U+DD84">>, <<"U+D803", "U+DD64">>>>,
   <<<<"U+D803", "U+DD85">>, <<"U+D803", "U+DD65">>>>,
   <<<<"U+D806", "U+DCC0">>, <<"U+D806", "U+DCA0">>>>,
   <<<<"U+D806", "U+DCC1">>, <<"U+D806", "U+DCA1">>>>,
   <<<<"U+D806", "U+DCC2">>, <<"U+D806", "U+DCA2">>>>,
   <<<<"U+D806", "U+DCC3">>, <<"U+D806", "U+DCA3">>>>,
   <<<<"U+D806", "U+DCC4">>, <<"U+D806", "U+DCA4">>>>,
   <<<<"U+D806", "U+DCC5">>, <<"U+D806", "U+DCA5">>>>,
   <<<<"U+D806", "U+DCC6">>, <<"U+D806", "U+DCA6">>>>,
   <<<<"U+D806", "U+DCC7">>, <<"U+D806", "U+DCA7">>>>,
   <<<<"U+D806", "U+DCC8">>, <<"U+D806", "U+DCA8">>>>,
   <<<<"U+D806", "U+DCC9">>, <<"U+D806", "U+DCA9">>>>,
   <<<<"U+D806", "U+DCCA">>, <<"U+D806", "U+DCAA">>>>,
   <<<<"U+D806", "U+DCCB">>, <<"U+D806", "U+DCAB">>>>,
   <<<<"U+D806", "U+DCCC">>, <<"U+D806", "U+DCAC">>>>,
   <<<<"U+D806", "U+DCCD">>, <<"U+D806", "U+DCAD">>>>,
   <<<<"U+D806", "U+DCCE">>, <<"U+D806", "U+DCAE">>>>,
   <<<<"U+D806", "U+DCCF">>, <<"U+D806", "U+DCAF">>>>,
   <<<<"U+D806", "U+DCD0">>, <<"U+D806", "U+DCB0">>>>,
   <<<<"U+D806", "U+DCD1">>, <<"U+D806", "U+DCB1">>>>,
   <<<<"U+D806", "U+DCD2">>, <<"U+D806", "U+DCB2">>>>,
   <<<<"U+D806", "U+DCD3">>, <<"U+D806", "U+DCB3">>>>,
   <<<<"U+D806", "U+DCD4">>, <<"U+D806", "U+DCB4">>>>,
   <<<<"U+D806", "U+DCD5">>, <<"U+D806", "U+DCB5">>>>,
   <<<<"U+D806", "U+DCD6">>, <<"U+D806", "U+DCB6">>>>,
   <<<<"U+D806", "U+DCD7">>, <<"U+D806", "U+DCB7">>>>,
   <<<<"U+D806", "U+DCD8">>, <<"U+D806", "U+DCB8">>>>,
   <<<<"U+D806", "U+DCD9">>, <<"U+D806", "U+DCB9">>>>,
   <<<<"U+D806", "U+DCDA">>, <<"U+D806", "U+DCBA">>>>,
   <<<<"U+D806", "U+DCDB">>, <<"U+D806", "U+DCBB">>>>,
   <<<<"U+D806", "U+DCDC">>, <<"U+D806", "U+DCBC">>>>,
   <<<<"U+D806", "U+DCDD">>, <<"U+D806", "U+DCBD">>>>,
   <<<<"U+D806", "U+DCDE">>, <<"U+D806", "U+DCBE">>>>,
   <<<<"U+D806", "U+DCDF">>, <<"U+D806", "U+DCBF">>>>,
   <<<<"U+D81B", "U+DE60">>, <<"U+D81B", "U+DE40">>>>,
   <<<<"U+D81B", "U+DE61">>, <<"U+D81B", "U+DE41">>>>,
   <<<<"U+D81B", "U+DE62">>, <<"U+D81B", "U+DE42">>>>,
   <<<<"U+D81B", "U+DE63">>, <<"U+D81B", "U+DE43">>>>,
   <<<<"U+D81B", "U+DE64">>, <<"U+D81B", "U+DE44">>>>,
   <<<<"U+D81B", "U+DE65">>, <<"U+D81B", "U+DE45">>>>,
   <<<<"U+D81B", "U+DE66">>, <<"U+D81B", "U+DE46">>>>,
   <<<<"U+D81B", "U+DE67">>, <<"U+D81B", "U+DE47">>>>,
   <<<<"U+D81B", "U+DE68">>, <<"U+D81B", "U+DE48">>>>,
   <<<<"U+D81B", "U+DE69">>, <<"U+D81B", "U+DE49">>>>,
   <<<<"U+D81B", "U+DE6A">>, <<"U+D81B", "U+DE4A">>>>,
   <<<<"U+D81B", "U+DE6B">>, <<"U+D81B", "U+DE4B">>>>,
   <<<<"U+D81B", "U+DE6C">>, <<"U+D81B", "U+DE4C">>>>,
   <<<<"U+D81B", "U+DE6D">>, <<"U+D81B", "U+DE4D">>>>,
   <<<<"U+D81B", "U+DE6E">>, <<"U+D81B", "U+DE4E">>>>,
   <<<<"U+D81B", "U+DE6F">>, <<"U+D81B", "U+DE4F">>>>,
   <<<<"U+D81B", "U+DE70">>, <<"U+D81B", "U+DE50">>>>,
   <<<<"U+D81B", "U+DE71">>, <<"U+D81B", "U+DE51">>>>,
   <<<<"U+D81B", "U+DE72">>, <<"U+D81B", "U+DE52">>>>,
   <<<<"U+D81B", "U+DE73">>, <<"U+D81B", "U+DE53">>>>,
   <<<<"U+D81B", "U+DE74">>, <<"U+D81B", "U+DE54">>>>,
   <<<<"U+D81B", "U+DE75">>, <<"U+D81B", "U+DE55">>>>,
   <<<<"U+D81B", "U+DE76">>, <<"U+D81B", "U+DE56">>>>,
   <<<<"U+D81B", "U+DE77">>, <<"U+D81B", "U+DE57">>>>,
   <<<<"U+D81B", "U+DE78">>, <<"U+D81B", "U+DE58">>>>,
   <<<<"U+D81B", "U+DE79">>, <<"U+D81B", "U+DE59">>>>,
   <<<<"U+D81B", "U+DE7A">>, <<"U+D81B", "U+DE5A">>>>,
   <<<<"U+D81B", "U+DE7B">>, <<"U+D81B", "U+DE5B">>>>,
   <<<<"U+D81B", "U+DE7C">>, <<"U+D81B", "U+DE5C">>>>,
   <<<<"U+D81B", "U+DE7D">>, <<"U+D81B", "U+DE5D">>>>,
   <<<<"U+D81B", "U+DE7E">>, <<"U+D81B", "U+DE5E">>>>,
   <<<<"U+D81B", "U+DE7F">>, <<"U+D81B", "U+DE5F">>>>,
   <<<<"U+D81B", "U+DEBB">>, <<"U+D81B", "U+DEA0">>>>,
   <<<<"U+D81B", "U+DEBC">>, <<"U+D81B", "U+DEA1">>>>,
   <<<<"U+D81B", "U+DEBD">>, <<"U+D81B", "U+DEA2">>>>,
   <<<<"U+D81B", "U+DEBE">>, <<"U+D81B", "U+DEA3">>>>,
   <<<<"U+D81B", "U+DEBF">>, <<"U+D81B", "U+DEA4">>>>,
   <<<<"U+D81B", "U+DEC0">>, <<"U+D81B", "U+DEA5">>>>,
   <<<<"U+D81B", "U+DEC1">>, <<"U+D81B", "U+DEA6">>>>,
   <<<<"U+D81B", "U+DEC2">>, <<"U+D81B", "U+DEA7">>>>,
   <<<<"U+D81B", "U+DEC3">>, <<"U+D81B", "U+DEA8">>>>,
   <<<<"U+D81B", "U+DEC4">>, <<"U+D81B", "U+DEA9">>>>,
   <<<<"U+D81B", "U+DEC5">>, <<"U+D81B", "U+DEAA">>>>,
   <<<<"U+D81B", "U+DEC6">>, <<"U+D81B", "U+DEAB">>>>,
   <<<<"U+D81B", "U+DEC7">>, <<"U+D81B", "U+DEAC">>>>,
   <<<<"U+D81B", "U+DEC8">>, <<"U+D81B", "U+DEAD">>>>,
   <<<<"U+D81B", "U+DEC9">>, <<"U+D81B", "U+DEAE">>>>,
   <<<<"U+D81B", "U+DECA">>, <<"U+D81B", "U+DEAF">>>>,
   <<<<"U+D81B", "U+DECB">>, <<"U+D81B", "U+DEB0">>>>,
   <<<<"U+D81B", "U+DECC">>, <<"U+D81B", "U+DEB1">>>>,
   <<<<"U+D81B", "U+DECD">>, <<"U+D81B", "U+DEB2">>>>,
   <<<<"U+D81B", "U+DECE">>, <<"U+D81B", "U+DEB3">>>>,
   <<<<"U+D81B", "U+DECF">>, <<"U+D81B", "U+DEB4">>>>,
   <<<<"U+D81B", "U+DED0">>, <<"U+D81B", "U+DEB5">>>>,
   <<<<"U+D81B", "U+DED1">>, <<"U+D81B", "U+DEB6">>>>,
   <<<<"U+D81B", "U+DED2">>, <<"U+D81B", "U+DEB7">>>>,
   <<<<"U+D81B", "U+DED3">>, <<"U+D81B", "U+DEB8">>>>,
   <<<<"U+D83A", "U+DD22">>, <<"U+D83A", "U+DD00">>>>,
   <<<<"U+D83A", "U+DD23">>, <<"U+D83A", "U+DD01">>>>,
   <<<<"U+D83A", "U+DD24">>, <<"U+D83A", "U+DD02">>>>,
   <<<<"U+D83A", "U+DD25">>, <<"U+D83A", "U+DD03">>>>,
   <<<<"U+D83A", "U+DD26">>, <<"U+D83A", "U+DD04">>>>,
   <<<<"U+D83A", "U+DD27">>, <<"U+D83A", "U+DD05">>>>,
   <<<<"U+D83A", "U+DD28">>, <<"U+D83A", "U+DD06">>>>,
   <<<<"U+D83A", "U+DD29">>, <<"U+D83A", "U+DD07">>>>,
   <<<<"U+D83A", "U+DD2A">>, <<"U+D83A", "U+DD08">>>>,
   <<<<"U+D83A", "U+DD2B">>, <<"U+D83A", "U+DD09">>>>,
   <<<<"U+D83A", "U+DD2C">>, <<"U+D83A", "U+DD0A">>>>,
   <<<<"U+D83A", "U+DD2D">>, <<"U+D83A", "U+DD0B">>>>,
   <<<<"U+D83A", "U+DD2E">>, <<"U+D83A", "U+DD0C">>>>,
   <<<<"U+D83A", "U+DD2F">>, <<"U+D83A", "U+DD0D">>>>,
   <<<<"U+D83A", "U+DD30">>, <<"U+D83A", "U+DD0E">>>>,
   <<<<"U+D83A", "U+DD31">>, <<"U+D83A", "U+DD0F">>>>,
   <<<<"U+D83A", "U+DD32">>, <<"U+D83A", "U+DD10">>>>,
   <<<<"U+D83A", "U+DD33">>, <<"U+D83A", "U+DD11">>>>,
   <<<<"U+D83A", "U+DD34">>, <<"U+D83A", "U+DD12">>>>,
   <<<<"U+D83A", "U+DD35">>, <<"U+D83A", "U+DD13">>>>,
   <<<<"U+D83A", "U+DD36">>, <<"U+D83A", "U+DD14">>>>,
   <<<<"U+D83A", "U+DD37">>, <<"U+D83A", "U+DD15">>>>,
   <<<<"U+D83A", "U+DD38">>, <<"U+D83A", "U+DD16">>>>,
   <<<<"U+D83A", "U+DD39">>, <<"U+D83A", "U+DD17">>>>,
   <<<<"U+D83A", "U+DD3A">>, <<"U+D83A", "U+DD18">>>>,
   <<<<"U+D83A", "U+DD3B">>, <<"U+D83A", "U+DD19">>>>,
   <<<<"U+D83A", "U+DD3C">>, <<"U+D83A", "U+DD1A">>>>,
   <<<<"U+D83A", "U+DD3D">>, <<"U+D83A", "U+DD1B">>>>,
   <<<<"U+D83A", "U+DD3E">>, <<"U+D83A", "U+DD1C">>>>,
   <<<<"U+D83A", "U+DD3F">>, <<"U+D83A", "U+DD1D">>>>,
   <<<<"U+D83A", "U+DD40">>, <<"U+D83A", "U+DD1E">>>>,
   <<<<"U+D83A", "U+DD41">>, <<"U+D83A", "U+DD1F">>>>,
   <<<<"U+D83A", "U+DD42">>, <<"U+D83A", "U+DD20">>>>,
   <<<<"U+D83A", "U+DD43">>, <<"U+D83A", "U+DD21">>>>}

\* a character outside ASCII is written as the name of its code unit
IsAscii(c) == Len(c) = 1

\* the entries of the tables for one character and for one surrogate pair
UnicodeUpper(c) == {p \in UnicodeUpperPairs : p[1] = c}
SurrogateUpper(hi, lo) == {p \in SurrogateUpperPairs : p[1] = <<hi, lo>>}

\* c.toUpperCase() of a text of one code unit: a text of one to three
UpperChar(c) ==
  IF \E i \in 1..26 : LowerChars[i] = c
  THEN <<UpperChars[CHOOSE i \in 1..26 : LowerChars[i] = c]>>
  ELSE IF IsAscii(c) \/ UnicodeUpper(c) = {} THEN <<c>>
  ELSE (CHOOSE p \in UnicodeUpper(c) : TRUE)[2]

\* s.toUpperCase(): a surrogate pair is one code point, a surrogate without
\* its partner is left as it is
RECURSIVE toUpperCase(_)
toUpperCase(s) ==
  IF s = <<>> THEN <<>>
  ELSE IF Len(s) >= 2 /\ ~IsAscii(s[1]) /\ ~IsAscii(s[2])
          /\ SurrogateUpper(s[1], s[2]) # {}
       THEN (CHOOSE p \in SurrogateUpper(s[1], s[2]) : TRUE)[2]
              \o toUpperCase(SubSeq(s, 3, Len(s)))
       ELSE UpperChar(Head(s)) \o toUpperCase(Tail(s))

\* Array.prototype.reverse
reverse(s) == [i \in 1..Len(s) |-> s[Len(s) + 1 - i]]

\* String(value): the text, or a TypeError
String(v) ==
  CASE v.kind = "string" -> Return(v.text)
    [] v.kind = "number" -> Return(NumberToString(v.num))
    [] v.kind = "boolean" ->
         Return(IF v.bool THEN <<"t", "r", "u", "e">> ELSE <<"f", "a", "l", "s", "e">>)
    [] v.kind = "null" -> Return(<<"n", "u", "l", "l">>)
    [] v.kind = "undefined" ->
         Return(<<"u", "n", "d", "e", "f", "i", "n", "e", "d">>)
    [] v.kind = "object" ->
         Return(<<"[", "o", "b", "j", "e", "c", "t", " ", "O", "b", "j", "e", "c", "t", "]">>)
    [] v.kind = "nullproto" -> Throw

(***************************************************************************)
(* cleanRut                                                                *)
(***************************************************************************)
\* mutant: the class escape \s is missing from the character class
IsFormattingCharNoSpace(c) == c = "." \/ c = "-"

\* the character class [.-\s]
IsFormattingChar(c) == c = "." \/ c = "-" \/ c \in WhiteSpace

\* mutant: the replace without the g flag removes the first match only
RECURSIVE RemoveFirstFormatting(_)
RemoveFirstFormatting(s) ==
  IF s = <<>> THEN <<>>
  ELSE IF IsFormattingChar(Head(s)) THEN Tail(s)
  ELSE <<Head(s)>> \o RemoveFirstFormatting(Tail(s))

\* str.replace(/[.-\s]/g, '')
RECURSIVE RemoveFormatting(_)
RemoveFormatting(s) ==
  IF s = <<>> THEN <<>>
  ELSE IF IsFormattingChar(Head(s)) THEN RemoveFormatting(Tail(s))
  ELSE <<Head(s)>> \o RemoveFormatting(Tail(s))

cleanRut(r) ==
  IF r.kind = "null" \/ r.kind = "undefined" THEN Return(Str(<<>>))
  ELSE LET rutString == String(r)
       IN IF rutString.type = "throw" THEN Return(Str(<<>>))
          ELSE Return(Str(toUpperCase(RemoveFormatting(rutString.value))))

(***************************************************************************)
(* calculateVerificationDigit                                              *)
(***************************************************************************)
\* /^\d+$/.test(str)
IsNumeric(str) == Len(str) >= 1 /\ \A i \in 1..Len(str) : str[i] \in Digit

multipliers == <<2, 3, 4, 5, 6, 7, 2, 3, 4, 5, 6, 7>>

\* the for loop over the reversed digits, from index i (0-based) with sum so far
RECURSIVE SumLoop(_, _, _)
SumLoop(rutDigits, i, sum) ==
  IF i < Len(rutDigits)
  THEN SumLoop(rutDigits, i + 1,
               sum + parseInt(rutDigits[i + 1]) * multipliers[(i % Len(multipliers)) + 1])
  ELSE sum

\* mutant: the bound is the typical length of a RUT named in the comment
RutStringTooLongTypical(rutString) == Len(rutString) > 10

\* if (rutString.length > 20)
RutStringTooLong(rutString) == Len(rutString) > 20

\* mutant: the return of '0' for 11 is missing
VerificationDigitToStringNoZero(verificationDigit) ==
  IF verificationDigit = 10 THEN <<"K">>
  ELSE NatToString(verificationDigit)

\* the three returns that map 11 - remainder to a character
VerificationDigitToString(verificationDigit) ==
  IF verificationDigit = 11 THEN <<"0">>
  ELSE IF verificationDigit = 10 THEN <<"K">>
  ELSE NatToString(verificationDigit)

calculateVerificationDigit(rutNumber) ==
  LET rutString == String(rutNumber)
  IN IF rutString.type = "throw" THEN Throw
     ELSE IF ~IsNumeric(rutString.value) THEN Return(Str(<<>>))
     ELSE IF RutStringTooLong(rutString.value) THEN Return(Str(<<>>))
     ELSE LET rutDigits == reverse(rutString.value)
              sum == SumLoop(rutDigits, 0, 0)
              remainder == sum % 11
              verificationDigit == 11 - remainder
          IN Return(Str(VerificationDigitToString(verificationDigit)))

(***************************************************************************)
(* isValidRut                                                              *)
(***************************************************************************)
\* /^(\d+)([K\d])$/.test(str)
MatchesRutRegex(str) ==
  /\ Len(str) >= 2
  /\ \A i \in 1..(Len(str) - 1) : str[i] \in Digit
  /\ str[Len(str)] \in Digit \cup {"K"}

\* str.match(/^(\d+)([K\d])$/): <<whole match, group 1, group 2>>
RutRegexMatch(str) == <<str, SubSeq(str, 1, Len(str) - 1), <<str[Len(str)]>>>>

\* mutant: the bound is tested with >=
CleanedRutTooLongAtBound(cleanedRut) == Len(cleanedRut) >= 20

\* mutant: the bound counts the digits only
CleanedRutTooLongOffByOne(cleanedRut) == Len(cleanedRut) > 21

\* if (cleanedRut.length > 20)
CleanedRutTooLong(cleanedRut) == Len(cleanedRut) > 20

\* if (rutNumber.length > 20)
RutNumberTooLong(rutNumber) == Len(rutNumber) > 20

isValidRut(r) ==
  LET cleaned == cleanRut(r)
  IN IF cleaned.type = "throw" THEN Return(Bool(FALSE))
     ELSE LET cleanedRut == cleaned.value.text
          IN IF Len(cleanedRut) < 2 THEN Return(Bool(FALSE))
             ELSE IF CleanedRutTooLong(cleanedRut) THEN Return(Bool(FALSE))
             ELSE IF ~MatchesRutRegex(cleanedRut) THEN Return(Bool(FALSE))
             ELSE LET match == RutRegexMatch(cleanedRut)
                      rutNumber == match[2]
                      providedVerificationDigit == match[3]
                  IN IF Len(match) # 3 THEN Return(Bool(FALSE))
                     ELSE IF RutNumberTooLong(rutNumber) THEN Return(Bool(FALSE))
                     ELSE LET calculated == calculateVerificationDigit(Str(rutNumber))
                          IN IF calculated.type = "throw" THEN Return(Bool(FALSE))
                             ELSE IF calculated.value.text = <<>> THEN Return(Bool(FALSE))
                             ELSE Return(Bool(calculated.value.text = providedVerificationDigit))

(***************************************************************************)
(* formatRut                                                               *)
(***************************************************************************)
\* mutant: the groups are separated by a comma
RECURSIVE FormatLoopComma(_, _, _, _)
FormatLoopComma(rutDigits, i, formattedRut, counter) ==
  IF i >= 0
  THEN LET withDigit == <<rutDigits[i + 1]>> \o formattedRut
       IN IF counter + 1 = 3 /\ i # 0
          THEN FormatLoopComma(rutDigits, i - 1, <<",">> \o withDigit, 0)
          ELSE FormatLoopComma(rutDigits, i - 1, withDigit, counter + 1)
  ELSE formattedRut

\* mutant: the test i !== 0 is missing
RECURSIVE FormatLoopLeadingDot(_, _, _, _)
FormatLoopLeadingDot(rutDigits, i, formattedRut, counter) ==
  IF i >= 0
  THEN LET withDigit == <<rutDigits[i + 1]>> \o formattedRut
       IN IF counter + 1 = 3
          THEN FormatLoopLeadingDot(rutDigits, i - 1, <<".">> \o withDigit, 0)
          ELSE FormatLoopLeadingDot(rutDigits, i - 1, withDigit, counter + 1)
  ELSE formattedRut

\* the for loop from index i (0-based) down to 0
RECURSIVE FormatLoop(_, _, _, _)
FormatLoop(rutDigits, i, formattedRut, counter) ==
  IF i >= 0
  THEN LET withDigit == <<rutDigits[i + 1]>> \o formattedRut
       IN IF counter + 1 = 3 /\ i # 0
          THEN FormatLoop(rutDigits, i - 1, <<".">> \o withDigit, 0)
          ELSE FormatLoop(rutDigits, i - 1, withDigit, counter + 1)
  ELSE formattedRut

\* mutant: the call of isValidRut is missing
formatRutUnchecked(r) ==
  LET cleanedRut == cleanRut(r).value.text
  IN IF cleanedRut = <<>> THEN Return(Null)
     ELSE Return(Str(FormatLoop(SubSeq(cleanedRut, 1, Len(cleanedRut) - 1),
                                Len(cleanedRut) - 2, <<>>, 0)
                     \o <<"-">> \o SubSeq(cleanedRut, Len(cleanedRut), Len(cleanedRut))))

formatRut(r) ==
  LET cleaned == cleanRut(r)
  IN IF cleaned.type = "throw" THEN Throw
     ELSE LET cleanedRut == cleaned.value.text
              valid == isValidRut(cleaned.value)
          IN IF valid.type = "throw" THEN Throw
             ELSE IF ~valid.value.bool THEN Return(Null)
             ELSE IF cleanedRut = <<>> THEN Return(Null)
             ELSE LET rutDigits == SubSeq(cleanedRut, 1, Len(cleanedRut) - 1)
                      verificationDigit == SubSeq(cleanedRut, Len(cleanedRut), Len(cleanedRut))
                      formattedRut == FormatLoop(rutDigits, Len(rutDigits) - 1, <<>>, 0)
                  IN Return(Str(formattedRut \o <<"-">> \o verificationDigit))

(***************************************************************************)
(* validateRut                                                             *)
(***************************************************************************)
\* mutant: formatted echoes the cleaned token instead of null
InvalidResultFormattedRaw(raw) ==
  Obj([isValid |-> Bool(FALSE), formatted |-> raw, raw |-> raw])

InvalidResult(raw) ==
  Obj([isValid |-> Bool(FALSE), formatted |-> Null, raw |-> raw])

\* the catch block: raw is String(rut), which may itself throw
ValidateRutCatch(r) ==
  IF String(r).type = "throw" THEN Throw
  ELSE Return(InvalidResult(Str(String(r).value)))

validateRut(r) ==
  LET cleaned == cleanRut(r)
  IN IF cleaned.type = "throw" THEN ValidateRutCatch(r)
     ELSE LET cleanedRut == cleaned.value
              isValid == isValidRut(cleanedRut)
          IN IF isValid.type = "throw" THEN ValidateRutCatch(r)
             ELSE IF ~isValid.value.bool THEN Return(InvalidResult(cleanedRut))
             ELSE IF ~MatchesRutRegex(cleanedRut.text) THEN Return(InvalidResult(cleanedRut))
             ELSE LET match == RutRegexMatch(cleanedRut.text)
                      formatted == formatRut(cleanedRut)
                  IN IF formatted.type = "throw" THEN ValidateRutCatch(r)
                     ELSE Return(Obj([isValid |-> Bool(TRUE),
                                      formatted |-> formatted.value,
                                      raw |-> cleanedRut,
                                      rutNumber |-> Str(match[2]),
                                      verificationDigit |-> Str(match[3])]))

(***************************************************************************)
(* The plain variant (src/validate-chilean-rut.js): no guard on the kind   *)
(* or the length of the argument, no try/catch.  Its definitions carry the *)
(* suffix Plain.                                                           *)
(***************************************************************************)
\* a JavaScript number that is an integer, or NaN
Number(n) == [nan |-> FALSE, n |-> n]
NaN == [nan |-> TRUE]

\* rut.toString(): a TypeError for null, undefined and an object without toString
toStringPlain(v) ==
  IF v.kind \in {"null", "undefined", "nullproto"} THEN Throw ELSE String(v)

cleanRutPlain(r) ==
  LET rutString == toStringPlain(r)
  IN IF rutString.type = "throw" THEN Throw
     ELSE Return(Str(toUpperCase(RemoveFormatting(rutString.value))))

\* mutant: the weights are written for one cycle only
multipliersPlainOneCycle == <<2, 3, 4, 5, 6, 7>>

multipliersPlain == <<2, 3, 4, 5, 6, 7, 2, 3, 4, 5, 6, 7>>

\* parseInt(rutDigits[i], 10) * multipliers[i]: NaN for a character that is no
\* digit and for an index beyond the table (undefined)
ProductPlain(rutDigits, i) ==
  IF rutDigits[i + 1] \in Digit /\ i < Len(multipliersPlain)
  THEN Number(parseInt(rutDigits[i + 1]) * multipliersPlain[i + 1])
  ELSE NaN

\* the for loop over the reversed digits, from index i (0-based) with sum so far
RECURSIVE SumLoopPlain(_, _, _)
SumLoopPlain(rutDigits, i, sum) ==
  IF i < Len(rutDigits)
  THEN LET product == ProductPlain(rutDigits, i)
       IN SumLoopPlain(rutDigits, i + 1,
                       IF sum.nan \/ product.nan THEN NaN ELSE Number(sum.n + product.n))
  ELSE sum

calculateVerificationDigitPlain(rutNumber) ==
  LET rutString == String(rutNumber)
  IN IF rutString.type = "throw" THEN Throw
     ELSE LET rutDigits == reverse(rutString.value)
              sum == SumLoopPlain(rutDigits, 0, Number(0))
          IN IF sum.nan THEN Return(Str(<<"N", "a", "N">>))
             ELSE Return(Str(VerificationDigitToString(11 - (sum.n % 11))))

isValidRutPlain(r) ==
  LET cleaned == cleanRutPlain(r)
  IN IF cleaned.type = "throw" THEN Throw
     ELSE LET cleanedRut == cleaned.value.text
          IN IF Len(cleanedRut) < 2 THEN Return(Bool(FALSE))
             ELSE IF ~MatchesRutRegex(cleanedRut) THEN Return(Bool(FALSE))
             ELSE LET match == RutRegexMatch(cleanedRut)
                      calculated == calculateVerificationDigitPlain(Str(match[2]))
                  IN IF calculated.type = "throw" THEN Throw
                     ELSE Return(Bool(calculated.value.text = match[3]))

formatRutPlain(r) ==
  LET cleaned == cleanRutPlain(r)
  IN IF cleaned.type = "throw" THEN Throw
     ELSE LET cleanedRut == cleaned.value.text
              valid == isValidRutPlain(cleaned.value)
          IN IF valid.type = "throw" THEN Throw
             ELSE IF ~valid.value.bool THEN Return(Null)
             ELSE LET rutDigits == SubSeq(cleanedRut, 1, Len(cleanedRut) - 1)
                      verificationDigit == SubSeq(cleanedRut, Len(cleanedRut), Len(cleanedRut))
                      formattedRut == FormatLoop(rutDigits, Len(rutDigits) - 1, <<>>, 0)
                  IN Return(Str(formattedRut \o <<"-">> \o verificationDigit))

validateRutPlain(r) ==
  LET cleaned == cleanRutPlain(r)
  IN IF cleaned.type = "throw" THEN Throw
     ELSE LET cleanedRut == cleaned.value
              isValid == isValidRutPlain(cleanedRut)
          IN IF isValid.type = "throw" THEN Throw
             ELSE IF ~isValid.value.bool THEN Return(InvalidResult(cleanedRut))
             ELSE LET match == RutRegexMatch(cleanedRut.text)
                      formatted == formatRutPlain(cleanedRut)
                  IN IF formatted.type = "throw" THEN Throw
                     ELSE Return(Obj([isValid |-> Bool(TRUE),
                                      formatted |-> formatted.value,
                                      raw |-> cleanedRut,
                                      rutNumber |-> Str(match[2]),
                                      verificationDigit |-> Str(match[3])]))

(***************************************************************************)
(* Inputs.                                                                 *)
(***************************************************************************)
Patterns == {<<"1", "2", "3", "4", "5", "6", "7", "8", "9", "0">>,
             <<"7", "6", "5", "4", "3", "2", "1", "0", "9", "8">>,
             <<"9">>}
Separators == {".", "-", " "}
CheckChars == Digit \cup {"K"}
FreeAlphabet == {"1", "9", "K", "k", ".", "-", " ", "#"}

Repeat(c, n) == [i \in 1..n |-> c]
DigitRun(p, n) == [i \in 1..n |-> p[((i - 1) % Len(p)) + 1]]
SeqsUpTo(S, n) == UNION {[1..m -> S] : m \in 0..n}

\* a run of digits, a repeated separator, at most one check character
StructuredInputs ==
  {Str(DigitRun(p, n) \o Repeat(sep, k) \o last) :
     p \in Patterns, n \in 0..MaxDigits, sep \in Separators, k \in 0..MaxSeparators,
     last \in SeqsUpTo(CheckChars, 1)}

\* every whitespace character, repeated, between at most one character on
\* each side
WhiteSpaceInputs ==
  {Str(pre \o Repeat(w, k) \o post) :
     w \in WhiteSpace, k \in 1..MaxSeparators,
     pre \in SeqsUpTo({"1", "9", "k"}, 1), post \in SeqsUpTo({"1", "9", "k"}, 1)}

\* every character and every surrogate pair that has an uppercase mapping,
\* alone and after a digit; every such pair with a removed or a kept character
\* between its halves, and each half alone; two words
CaseInputs ==
  {Str(pre \o c) :
     c \in {<<p[1]>> : p \in UnicodeUpperPairs} \cup {p[1] : p \in SurrogateUpperPairs},
     pre \in SeqsUpTo({"1"}, 1)}
    \cup {Str(<<p[1][1], mid, p[1][2]>>) : p \in SurrogateUpperPairs, mid \in {".", "#"}}
    \cup {Str(<<p[1][i]>>) : p \in SurrogateUpperPairs, i \in 1..2}
    \cup {Str(<<"s", "t", "r", "a", "U+00DF", "e">>),
          Str(<<"m", "a", "U+00F1", "a", "n", "a">>)}

\* every short text over digits, letters, separators and another character
FreeInputs == {Str(s) : s \in SeqsUpTo(FreeAlphabet, MaxFree)}

NumberInputs ==
  {Num(n) : n \in (-MaxSmallNumber)..MaxSmallNumber}
    \cup {Num(7654321), Num(12345678), Num(123456785), Num(123456789)}

OtherInputs == {Null, Undefined, Bool(TRUE), Bool(FALSE), Obj(<<>>), NullProtoObject}

Inputs ==
  StructuredInputs \cup FreeInputs \cup NumberInputs \cup OtherInputs
    \cup WhiteSpaceInputs \cup CaseInputs

(***************************************************************************)
(* State machine: a behaviour is one call of an exported function on one   *)
(* argument.                                                               *)
(***************************************************************************)
Init ==
  /\ rut \in Inputs
  /\ fn = "none"
  /\ completion = Return(Undefined)

CallCleanRut ==
  /\ fn = "none"
  /\ fn' = "cleanRut"
  /\ completion' = cleanRut(rut)
  /\ UNCHANGED rut

CallCalculateVerificationDigit ==
  /\ fn = "none"
  /\ fn' = "calculateVerificationDigit"
  /\ completion' = calculateVerificationDigit(rut)
  /\ UNCHANGED rut

CallIsValidRut ==
  /\ fn = "none"
  /\ fn' = "isValidRut"
  /\ completion' = isValidRut(rut)
  /\ UNCHANGED rut

CallFormatRut ==
  /\ fn = "none"
  /\ fn' = "formatRut"
  /\ completion' = formatRut(rut)
  /\ UNCHANGED rut

CallValidateRut ==
  /\ fn = "none"
  /\ fn' = "validateRut"
  /\ completion' = validateRut(rut)
  /\ UNCHANGED rut

Next ==
  \/ CallCleanRut
  \/ CallCalculateVerificationDigit
  \/ CallIsValidRut
  \/ CallFormatRut
  \/ CallValidateRut

Spec == Init /\ [][Next]_vars

\* the same, for the plain variant
CallCleanRutPlain ==
  /\ fn = "none"
  /\ fn' = "plain.cleanRut"
  /\ completion' = cleanRutPlain(rut)
  /\ UNCHANGED rut

CallCalculateVerificationDigitPlain ==
  /\ fn = "none"
  /\ fn' = "plain.calculateVerificationDigit"
  /\ completion' = calculateVerificationDigitPlain(rut)
  /\ UNCHANGED rut

CallIsValidRutPlain ==
  /\ fn = "none"
  /\ fn' = "plain.isValidRut"
  /\ completion' = isValidRutPlain(rut)
  /\ UNCHANGED rut

CallFormatRutPlain ==
  /\ fn = "none"
  /\ fn' = "plain.formatRut"
  /\ completion' = formatRutPlain(rut)
  /\ UNCHANGED rut

CallValidateRutPlain ==
  /\ fn = "none"
  /\ fn' = "plain.validateRut"
  /\ completion' = validateRutPlain(rut)
  /\ UNCHANGED rut

NextPlain ==
  \/ CallCleanRutPlain
  \/ CallCalculateVerificationDigitPlain
  \/ CallIsValidRutPlain
  \/ CallFormatRutPlain
  \/ CallValidateRutPlain

SpecPlain == Init /\ [][NextPlain]_vars

(***************************************************************************)
(* Properties.                                                             *)
(***************************************************************************)
Returned == completion.type = "normal"
ReturnedText == completion.value.text
StringArgument == rut.kind = "string"

\* the structural pattern: one or more digits, then one digit or K
IsStructuralToken(t) ==
  /\ Len(t) >= 2
  /\ \A i \in 1..Len(t) : i < Len(t) => t[i] \in Digit
  /\ t[Len(t)] \in CheckChars
DigitsOf(t) == SubSeq(t, 1, Len(t) - 1)
CheckCharOf(t) == <<t[Len(t)]>>

\* Module 11 as the specification states it
Weight(i) == <<2, 3, 4, 5, 6, 7>>[(i % 6) + 1]
DigitValue(c) == CHOOSE d \in 0..9 : DigitChars[d + 1] = c
RECURSIVE WeightedSum(_, _)
WeightedSum(text, i) ==
  IF i >= Len(text) THEN 0
  ELSE DigitValue(text[Len(text) - i]) * Weight(i) + WeightedSum(text, i + 1)
Module11Reference(text) ==
  IF text = <<>> \/ (\E i \in 1..Len(text) : text[i] \notin Digit) \/ Len(text) > 20
  THEN <<>>
  ELSE LET candidate == 11 - (WeightedSum(text, 0) % 11)
       IN IF candidate = 11 THEN <<"0">>
          ELSE IF candidate = 10 THEN <<"K">>
          ELSE <<DigitChars[candidate + 1]>>

\* C1: calculateVerificationDigit of a text, or of a number taken as its
\* decimal text, returns the Module-11 reference: '' for an empty, non-digit
\* or over-20-character text, else the check character of the weighted sum.
C1_Module11Reference ==
  (fn = "calculateVerificationDigit" /\ rut.kind \in {"string", "number"}) =>
    completion = Return(Str(Module11Reference(
                   IF rut.kind = "string" THEN rut.text ELSE NumberToString(rut.num))))

\* a digit text longer than the 12-entry weight table whose check character is 0
C1_Witness ==
  /\ fn = "calculateVerificationDigit"
  /\ StringArgument
  /\ Len(rut.text) > 12
  /\ Returned
  /\ ReturnedText = <<"0">>

\* C2 as stated: for every token of the structural pattern, of any length,
\* isValidRut is true exactly when the check character of its digits is its
\* last character.
C2_ConsistencyAnyLength ==
  (fn = "isValidRut" /\ StringArgument /\ IsStructuralToken(rut.text)) =>
    /\ Returned
    /\ completion.value.bool =
         (calculateVerificationDigit(Str(DigitsOf(rut.text))) = Return(Str(CheckCharOf(rut.text))))

\* C2 amended: the same, for every token of the structural pattern whose
\* length is not 21 (20 digits followed by their check character).
C2_ConsistencyExceptLength21 ==
  (fn = "isValidRut" /\ StringArgument /\ IsStructuralToken(rut.text) /\ Len(rut.text) # 21) =>
    /\ Returned
    /\ completion.value.bool =
         (calculateVerificationDigit(Str(DigitsOf(rut.text))) = Return(Str(CheckCharOf(rut.text))))

\* a 20-character token that isValidRut accepts
C2_Witness ==
  /\ fn = "isValidRut"
  /\ StringArgument
  /\ IsStructuralToken(rut.text)
  /\ Len(rut.text) = 20
  /\ Returned
  /\ completion.value.bool

\* C3: no call of the five functions raises, whatever the kind of the argument.
C3_Totality == fn # "none" => Returned

\* the separator before the check character is repeated
HasRepeatedSeparator(t) ==
  /\ Len(t) >= 4
  /\ t[Len(t)] \in CheckChars
  /\ t[Len(t) - 1] \in {".", "-"}
  /\ t[Len(t) - 2] = t[Len(t) - 1]
  /\ \A i \in 1..(Len(t) - 3) : t[i] \in Digit

\* C4: isValidRut returns false and formatRut returns null for every text in
\* which the separator before the check character is repeated.
C4_RepeatedSeparatorRejected ==
  (StringArgument /\ HasRepeatedSeparator(rut.text)) =>
    /\ fn = "isValidRut" => completion = Return(Bool(FALSE))
    /\ fn = "formatRut" => completion = Return(Null)

\* the argument is a cleaned token that isValidRut accepts
ValidCleanedToken ==
  /\ StringArgument
  /\ cleanRut(rut) = Return(rut)
  /\ isValidRut(rut) = Return(Bool(TRUE))

\* C5: for every cleaned token t that isValidRut accepts, cleanRut(formatRut(t))
\* is t.
C5_FormatRoundTrip ==
  (fn = "formatRut" /\ ValidCleanedToken) =>
    /\ Returned
    /\ cleanRut(completion.value) = Return(rut)

\* a valid token of seven or more digits, formatted with two separators
C5_Witness ==
  /\ fn = "formatRut"
  /\ ValidCleanedToken
  /\ Len(rut.text) >= 8
  /\ Returned
  /\ completion.value.kind = "string"
  /\ Len(ReturnedText) >= Len(rut.text) + 3

\* C6: the record of validateRut has raw = cleanRut(input), has rutNumber and
\* verificationDigit exactly when isValid, has formatted = null exactly when
\* not isValid, and when isValid has rutNumber followed by verificationDigit
\* equal to raw and formatted equal to formatRut(input).
C6_ValidationRecord ==
  fn = "validateRut" =>
    /\ Returned
    /\ completion.value.kind = "object"
    /\ LET p == completion.value.props
           valid == p.isValid.bool
       IN /\ {"isValid", "formatted", "raw"} \subseteq DOMAIN p
          /\ Return(p.raw) = cleanRut(rut)
          /\ ("rutNumber" \in DOMAIN p) <=> valid
          /\ ("verificationDigit" \in DOMAIN p) <=> valid
          /\ (p.formatted.kind = "null") <=> ~valid
          /\ valid => /\ p.rutNumber.text \o p.verificationDigit.text = p.raw.text
                      /\ Return(p.formatted) = formatRut(rut)

\* a valid record for an argument written with separators
C6_Witness ==
  /\ fn = "validateRut"
  /\ StringArgument
  /\ Returned
  /\ completion.value.props.isValid.bool
  /\ completion.value.props.raw # rut
  /\ Len(completion.value.props.rutNumber.text) >= 4

\* the digits with a '.' before every group of three counted from the right,
\* never before the first digit
RECURSIVE Grouped(_, _)
Grouped(d, j) ==
  IF j > Len(d) THEN <<>>
  ELSE (IF j > 1 /\ (Len(d) - j + 1) % 3 = 0 THEN <<".">> ELSE <<>>)
         \o <<d[j]>> \o Grouped(d, j + 1)

\* C7: for every valid input, formatRut returns the digits grouped by three
\* from the right with '.', no leading '.', then '-' and the check character.
C7_Grouping ==
  (fn = "formatRut" /\ isValidRut(rut) = Return(Bool(TRUE))) =>
    LET t == cleanRut(rut).value.text
    IN completion = Return(Str(Grouped(DigitsOf(t), 1) \o <<"-">> \o CheckCharOf(t)))

\* a valid input of six digits: two full groups and no leading separator
C7_Witness ==
  /\ fn = "formatRut"
  /\ isValidRut(rut) = Return(Bool(TRUE))
  /\ Len(cleanRut(rut).value.text) = 7
  /\ Returned
  /\ completion.value.kind = "string"
  /\ Len(ReturnedText) = 9

\* C8: formatRut returns null exactly when isValidRut of the same input is
\* false, and a string otherwise.
C8_NullIffInvalid ==
  fn = "formatRut" =>
    /\ Returned
    /\ completion.value.kind \in {"null", "string"}
    /\ (completion.value.kind = "null") <=> (isValidRut(rut) = Return(Bool(FALSE)))

\* null for a token of the structural pattern with a wrong check character
C8_Witness ==
  /\ fn = "formatRut"
  /\ StringArgument
  /\ IsStructuralToken(rut.text)
  /\ Len(rut.text) <= 20
  /\ completion = Return(Null)

\* the cleaned token of the argument is longer than 20 characters
Oversized == Len(cleanRut(rut).value.text) > 20

\* C9: when the cleaned token is longer than 20 characters isValidRut returns
\* false, formatRut null and validateRut isValid false; and
\* calculateVerificationDigit returns '' for an all-digit text longer than 20.
C9_OversizedRejected ==
  /\ (fn = "isValidRut" /\ Oversized) => completion = Return(Bool(FALSE))
  /\ (fn = "formatRut" /\ Oversized) => completion = Return(Null)
  /\ (fn = "validateRut" /\ Oversized) =>
       (Returned /\ completion.value.props.isValid = Bool(FALSE))
  /\ (fn = "calculateVerificationDigit" /\ StringArgument /\ Len(rut.text) > 20
        /\ \A i \in 1..Len(rut.text) : rut.text[i] \in Digit) =>
       completion = Return(Str(<<>>))

\* a 21-character token whose last character is the check character of its
\* 20 digits, rejected
C9_Witness ==
  /\ fn = "isValidRut"
  /\ StringArgument
  /\ IsStructuralToken(rut.text)
  /\ Len(rut.text) = 21
  /\ Module11Reference(DigitsOf(rut.text)) = CheckCharOf(rut.text)
  /\ completion = Return(Bool(FALSE))

\* C10: cleanRut(cleanRut(x)) = cleanRut(x) for every argument x.
C10_CleanIdempotent ==
  fn = "cleanRut" =>
    /\ Returned
    /\ cleanRut(completion.value) = completion

\* an argument with two separators and a lowercase letter
C10_Witness ==
  /\ fn = "cleanRut"
  /\ StringArgument
  /\ Returned
  /\ Len(rut.text) >= Len(ReturnedText) + 2
  /\ \E i \in 1..Len(rut.text) : rut.text[i] = "k"

\* the characters of a token
CharsOf(t) == {t[i] : i \in 1..Len(t)}
UpperLetter == {UpperChars[i] : i \in 1..26}
LowerLetter == {LowerChars[i] : i \in 1..26}
\* the characters outside ASCII that have an uppercase form
CasedUnicode == {p[1] : p \in UnicodeUpperPairs}

\* C11 as stated: the cleaned token returned by cleanRut contains only digits
\* and uppercase letters.
C11_OnlyDigitsAndUppercase ==
  fn = "cleanRut" =>
    /\ Returned
    /\ CharsOf(ReturnedText) \subseteq Digit \cup UpperLetter

\* C11 amended: the cleaned token returned by cleanRut contains no period, no
\* hyphen, no whitespace character, no lowercase letter a-z and no other
\* character that has an uppercase form.
C11_NoFormattingNoLowercase ==
  fn = "cleanRut" =>
    /\ Returned
    /\ completion.value.kind = "string"
    /\ CharsOf(ReturnedText)
         \cap ({".", "-"} \cup WhiteSpace \cup LowerLetter \cup CasedUnicode) = {}

\* a text with a space, a lowercase letter and another character, which is kept
C11_Witness ==
  /\ fn = "cleanRut"
  /\ StringArgument
  /\ {" ", "k", "#"} \subseteq CharsOf(rut.text)
  /\ Returned
  /\ "#" \in CharsOf(ReturnedText)

\* the argument is a token of the structural pattern with 1..19 digits
TokenOfUpTo19Digits ==
  /\ StringArgument
  /\ IsStructuralToken(rut.text)
  /\ Len(DigitsOf(rut.text)) \in 1..19

\* the check characters that isValidRut accepts after the digits d
AcceptedCheckChars(d) ==
  {c \in CheckChars : isValidRut(Str(d \o <<c>>)) = Return(Bool(TRUE))}

\* C12: for every digit sequence d of length 1..19 exactly one check
\* character makes isValidRut(d c) true, and it is
\* calculateVerificationDigit(d); the rejections for a digit sequence longer
\* than 20 and for an empty computed check character never decide.
C12_ExactlyOneCheckChar ==
  (fn = "isValidRut" /\ TokenOfUpTo19Digits) =>
    LET d == DigitsOf(rut.text)
        calculated == calculateVerificationDigit(Str(d))
    IN /\ Returned
       /\ calculated.type = "normal"
       /\ Len(calculated.value.text) = 1
       /\ AcceptedCheckChars(d) = {calculated.value.text[1]}
       /\ completion.value.bool = (rut.text[Len(rut.text)] \in AcceptedCheckChars(d))
       /\ ~RutNumberTooLong(d)
       /\ calculated.value.text # <<>>

\* a token of 13 or more digits and the check character K, accepted
C12_Witness ==
  /\ fn = "isValidRut"
  /\ TokenOfUpTo19Digits
  /\ Len(rut.text) >= 14
  /\ rut.text[Len(rut.text)] = "K"
  /\ completion = Return(Bool(TRUE))

\* the argument is a text whose cleaned token has at most 13 characters
TokenWithinPlainTable == StringArgument /\ Len(cleanRut(rut).value.text) <= 13

\* C13: for every string input whose cleaned token has at most 13 characters,
\* isValidRut, formatRut and validateRut of the plain variant return what
\* those of the hardened variant return.
C13_PlainAgreesWithHardened ==
  TokenWithinPlainTable =>
    /\ fn = "plain.isValidRut" => completion = isValidRut(rut)
    /\ fn = "plain.formatRut" => completion = formatRut(rut)
    /\ fn = "plain.validateRut" => completion = validateRut(rut)

\* a token of 12 digits and their check character, accepted by the plain variant
C13_Witness ==
  /\ fn = "plain.isValidRut"
  /\ StringArgument
  /\ Len(rut.text) = 13
  /\ IsStructuralToken(rut.text)
  /\ completion = Return(Bool(TRUE))

====
